---- MODULE Spec2Model ----
(***************************************************************************)
(* SafeWaters API: the URL threat and policy decision engine.              *)
(*                                                                         *)
(* check_and_record_url (the per-navigation evaluation), check_url (the    *)
(* reputation waterfall), the Memcached reputation cache, the three threat *)
(* source clients, the blocking-rule store and the navigation history.     *)
(* Text (URLs, rule values, domains) is a sequence of one-character        *)
(* strings, so that urlparse, lower() and the substring test are computed. *)
(***************************************************************************)
EXTENDS Integers, Sequences, FiniteSets, TLC

(***************************************************************************)
(* Bounds of the model.                                                    *)
(***************************************************************************)
MaxRules == 2       \* blocking rules created in one behaviour
MaxVisits == 2      \* check_and_record_url calls started in one behaviour

(***************************************************************************)
(* Text.                                                                   *)
(***************************************************************************)
\* Python's None where a str is expected (get_domain_from_url of a URL
\* without hostname); no text has this shape.
NoneVal == <<"None">>

LowerChar(c) ==
    CASE c = "B" -> "b"
      [] c = "X" -> "x"
      [] c = "P" -> "p"
      [] OTHER -> c

Lower(s) == [i \in 1..Len(s) |-> LowerChar(s[i])]

\* needle in hay
Contains(hay, needle) ==
    \E i \in 0..(Len(hay) - Len(needle)) :
        SubSeq(hay, i + 1, i + Len(needle)) = needle

\* the first index >= from of s holding one of chars, Len(s)+1 when none
FirstIndex(s, chars, from) ==
    LET I == {i \in from..Len(s) : s[i] \in chars}
    IN  IF I = {} THEN Len(s) + 1 ELSE CHOOSE i \in I : \A j \in I : i <= j

\* the last index of s holding c, 0 when none
LastIndex(s, c) ==
    LET I == {i \in 1..Len(s) : s[i] = c}
    IN  IF I = {} THEN 0 ELSE CHOOSE i \in I : \A j \in I : j <= i

SchemeChars == {"a", "b", "h", "p", "x", "B", "X", "P", "8", "."}
SchemeLetters == {"a", "b", "h", "p", "x", "B", "X", "P"}

\* urllib.parse.urlsplit: what follows "scheme:" (the whole text when there is
\* no valid scheme)
AfterScheme(url) ==
    LET i == FirstIndex(url, {":"}, 1)
    IN  IF /\ i > 1
           /\ i <= Len(url)
           /\ url[1] \in SchemeLetters
           /\ \A j \in 1..(i - 1) : url[j] \in SchemeChars
        THEN SubSeq(url, i + 1, Len(url))
        ELSE url

\* urlparse(url).netloc: between "//" and the next "/", "?" or "#"
Netloc(url) ==
    LET rest == AfterScheme(url)
    IN  IF Len(rest) >= 2 /\ rest[1] = "/" /\ rest[2] = "/"
        THEN SubSeq(rest, 3, FirstIndex(rest, {"/", "?", "#"}, 3) - 1)
        ELSE <<>>

\* urlparse(url).hostname: the netloc without user-info and port, lower-cased;
\* None when empty
Hostname(url) ==
    LET n == Netloc(url)
        hostinfo == SubSeq(n, LastIndex(n, "@") + 1, Len(n))
        h == SubSeq(hostinfo, 1, FirstIndex(hostinfo, {":"}, 1) - 1)
    IN  IF h = <<>> THEN NoneVal ELSE Lower(h)

get_domain_from_url(url) == Hostname(url)

\* str(x) of a value that is a str or None
StrOf(x) == IF x = NoneVal THEN <<"N", "o", "n", "e">> ELSE x

(***************************************************************************)
(* The inputs.                                                             *)
(***************************************************************************)
UrlPlain == <<"h", ":", "/", "/", "b", ".", "x", "/", "p">>
UrlPort == <<"h", ":", "/", "/", "B", ".", "x", ":", "8", "/", "p">>
UrlSub == <<"h", ":", "/", "/", "a", ".", "b", ".", "x", "/">>
UrlNoHost == <<"h", ":", "p">>
Urls == {UrlPlain, UrlPort, UrlSub, UrlNoHost}

Domains == {get_domain_from_url(u) : u \in Urls}
CacheKeys == {StrOf(d) : d \in Domains}

Users == {"u1", "u2"}
Profiles == {"p1", "p2"}
Tokens == {"tok-p1", "tok-p2", "tok-unknown"}

RuleTypes == {"DOMAIN", "URL", "KEYWORD"}
\* the rule values a manager enters, by type
RuleValues(t) ==
    CASE t = "DOMAIN" -> {<<"B", ".", "x">>}
      [] t = "URL" -> {<<"h", ":", "/", "/", "b", ".", "x", "/", "P">>}
      [] t = "KEYWORD" -> {<<"B", ".">>}

ScanIndex == "URLScan.io"
IOCFeed == "ThreatFox"
IPReputation == "AbuseIPDB"
Sources == {ScanIndex, IOCFeed, IPReputation}
\* what one HTTP exchange with a source ends in
ErrorKinds == {"RequestError", "HTTPStatusError", "ParseError"}
Outcomes == {"flagged", "clean"} \cup ErrorKinds

VARIABLES
    profiles,   \* managed_profiles: profile id -> document
    rules,      \* blocking_rules, in the store's order
    ruleCount,  \* rules created so far
    history,    \* profile_navigation_history, in the store's order
    cache,      \* Memcached: key -> JSON blob or nothing
    req,        \* the check_and_record_url call in flight, per request slot
    visits,     \* calls started so far
    listing,    \* the latest answer of get_profile_history_for_frontend, and
                \* the profile, caller and filter it was asked with
    reply,      \* the latest request to the rule services and how it ended
    now,          \* the clock, in hours
    reset_tokens, \* the recovery tokens generated so far, in order
    used_tokens,  \* PasswordResetService.used_tokens: token -> when marked
    passwords,    \* users: email -> hashed_password
    resets,       \* the reset_password call in flight, per request slot
    reset_answer, \* the latest answer of POST /request-password-reset
    links,        \* the link fields of each managed profile
    link_reply,   \* the latest LinkExtensionRequest and how it ended
    feed,         \* the parsed answer of the IOC feed
    feed_verdict  \* what check_threatfox made of it

\* the state of the password recovery, which the evaluation of visits, the
\* rules and the history never read or write
recovery == <<now, reset_tokens, used_tokens, passwords, resets, reset_answer>>
\* the state of the linking of extensions, likewise
linking == <<links, link_reply>>
\* the answer of the IOC feed in detail, likewise
feeds == <<feed, feed_verdict>>
elsewhere == <<recovery, linking, feeds>>

vars == <<profiles, rules, ruleCount, history, cache, req, visits, listing, reply,
          elsewhere>>


(***************************************************************************)
(* The documents.                                                          *)
(***************************************************************************)
\* users: the manager of each profile, and the user documents
ManagerOf(p) == IF p = "p1" THEN "u1" ELSE "u2"
UserDoc(u) == [id |-> u, email |-> <<u, "@mail">>, username |-> <<u, "name">>]

TokenOf(p) == IF p = "p1" THEN "tok-p1" ELSE "tok-p2"

\* what the profile store holds for a profile that was deleted
NoProfile ==
    [name |-> <<>>, token |-> "", manager_user |-> "", url_checking_enabled |-> FALSE]

\* RuleSnapshot, and None in its place
NoSnapshot ==
    [present |-> FALSE, id |-> 0, rule_type |-> "", rule_value |-> <<>>,
     description |-> <<>>]

_create_rule_snapshot(blocking_rule) ==
    [present |-> TRUE,
     id |-> blocking_rule.id,
     rule_type |-> blocking_rule.rule_type,
     rule_value |-> blocking_rule.rule_value,
     description |-> blocking_rule.description]

ProfileSnapshot(p) ==
    [id |-> p, name |-> profiles[p].name, profile_token |-> profiles[p].token]

UserSnapshot(u) ==
    [id |-> UserDoc(u).id, email |-> UserDoc(u).email,
     username |-> UserDoc(u).username]

NoProfileSnapshot == [id |-> "", name |-> <<>>, profile_token |-> ""]
NoUserSnapshot == [id |-> "", email |-> <<>>, username |-> <<>>]

\* a NavigationHistory document; visited_at is the store's clock, which the
\* position in the collection stands for
NavigationHistory(id, psnap, usnap, visited_url, blocked, snap) ==
    [id |-> id,
     profile_snapshot |-> psnap,
     user_snapshot |-> usnap,
     visited_url |-> visited_url,
     blocked |-> blocked,
     blocking_rule_snapshot |-> snap]

(***************************************************************************)
(* The reputation cache (utils/cache.py).                                  *)
(***************************************************************************)
NoBlob == <<>>

\* json.dumps / json.loads of {"malicious": ..., "info": ...}
JsonDumps(data) == <<"{", data.malicious, data.info, "}">>
JsonLoads(blob) == [malicious |-> blob[2], info |-> blob[3]]

\* what get_from_cache returns: a dict, or None (hit = FALSE)
NoDict == [hit |-> FALSE, malicious |-> FALSE, info |-> <<>>]

\* get_from_cache reading the flag under a key the entry does not have
get_from_cache_wrong_field(domain, up) ==
    IF ~up \/ cache[StrOf(domain)] = NoBlob
    THEN NoDict
    ELSE [hit |-> TRUE, malicious |-> FALSE,
          info |-> JsonLoads(cache[StrOf(domain)]).info]

\* get_from_cache taking an entry that is not malicious for a miss
get_from_cache_malicious_only(domain, up) ==
    IF ~up \/ cache[StrOf(domain)] = NoBlob
           \/ ~JsonLoads(cache[StrOf(domain)]).malicious
    THEN NoDict
    ELSE [hit |-> TRUE, malicious |-> TRUE,
          info |-> JsonLoads(cache[StrOf(domain)]).info]

\* up: whether Memcached answers this operation
get_from_cache(domain, up) ==
    IF ~up
    THEN NoDict
    ELSE LET cached_data == cache[StrOf(domain)]
         IN  IF cached_data # NoBlob
             THEN [hit |-> TRUE,
                   malicious |-> JsonLoads(cached_data).malicious,
                   info |-> JsonLoads(cached_data).info]
             ELSE NoDict

\* set_to_cache skipping the verdicts that are not malicious
set_to_cache_malicious_only(domain, malicious, info, up) ==
    IF up /\ domain # NoneVal /\ malicious
    THEN [cache EXCEPT ![domain] =
              JsonDumps([malicious |-> malicious, info |-> info])]
    ELSE cache

\* the store after a set that keeps an entry already there (Memcached's add)
set_to_cache_add(domain, malicious, info, up) ==
    IF up /\ domain # NoneVal /\ cache[domain] = NoBlob
    THEN [cache EXCEPT ![domain] =
              JsonDumps([malicious |-> malicious, info |-> info])]
    ELSE cache

\* the store after set_to_cache; a failing set (Memcached down, or a None key)
\* is logged and leaves the store alone
set_to_cache(domain, malicious, info, up) ==
    IF up /\ domain # NoneVal
    THEN [cache EXCEPT ![domain] =
              JsonDumps([malicious |-> malicious, info |-> info])]
    ELSE cache

(***************************************************************************)
(* The threat source clients (utils/external_apis).                        *)
(***************************************************************************)
\* a raised exception in place of a returned URLResponse
Raised == [raised |-> TRUE, domain |-> <<>>, malicious |-> FALSE,
           info |-> <<>>, source |-> ""]

\* the pydantic model: domain must be a str
URLResponse(domain, malicious, info, source) ==
    IF domain = NoneVal
    THEN Raised
    ELSE [raised |-> FALSE, domain |-> domain, malicious |-> malicious,
          info |-> info, source |-> source]

\* the except clause an outcome of the exchange lands in
Handler(outcome) ==
    CASE outcome = "RequestError" -> "Error de conexion"
      [] outcome = "HTTPStatusError" -> "Error HTTP"
      [] OTHER -> "Error inesperado"

check_urlscanio(domain, outcome) ==
    LET body ==
            CASE outcome = "flagged" ->
                     URLResponse(domain, TRUE, <<"URLScan.io", "phishing">>, "URLScan.io")
              [] outcome = "clean" ->
                     URLResponse(domain, FALSE, <<"URLScan.io", "no encontrado">>, "URLScan.io")
              [] OTHER -> Raised
    IN  IF ~body.raised
        THEN body
        ELSE URLResponse(domain, FALSE, <<"URLScan.io", Handler(outcome)>>, "URLScan.io")

\* check_threatfox without its last except clause
check_threatfox_no_catch_all(domain, outcome) ==
    CASE outcome = "flagged" ->
             URLResponse(domain, TRUE, <<"ThreatFox", "IOC">>, "ThreatFox")
      [] outcome = "clean" ->
             URLResponse(domain, FALSE, <<"ThreatFox", "no encontrado">>, "ThreatFox")
      [] outcome = "ParseError" -> Raised
      [] OTHER ->
             URLResponse(domain, FALSE, <<"ThreatFox", Handler(outcome)>>, "ThreatFox")

check_threatfox(domain, outcome) ==
    LET body ==
            CASE outcome = "flagged" ->
                     URLResponse(domain, TRUE, <<"ThreatFox", "IOC">>, "ThreatFox")
              [] outcome = "clean" ->
                     URLResponse(domain, FALSE, <<"ThreatFox", "no encontrado">>, "ThreatFox")
              [] OTHER -> Raised
    IN  IF ~body.raised
        THEN body
        ELSE URLResponse(domain, FALSE, <<"ThreatFox", Handler(outcome)>>, "ThreatFox")

check_abuseipdb(domain, outcome) ==
    LET body ==
            CASE outcome = "flagged" ->
                     URLResponse(domain, TRUE, <<"AbuseIPDB", "Score">>, "AbuseIPDB")
              [] outcome = "clean" ->
                     URLResponse(domain, FALSE, <<"AbuseIPDB", "Score">>, "AbuseIPDB")
              [] OTHER -> Raised
    IN  IF ~body.raised
        THEN body
        ELSE URLResponse(domain, FALSE, <<"AbuseIPDB", Handler(outcome)>>, "AbuseIPDB")

\* what an exchange with source s can end in when the source's data says
\* flagged (s in intel) or not
OutcomesOf(s, intel) ==
    ErrorKinds \cup {IF s \in intel THEN "flagged" ELSE "clean"}

(***************************************************************************)
(* Rule matching (crud_navigation_history.py).                             *)
(***************************************************************************)
\* the query without its active == True condition
ActiveRulesOf_any(p) ==
    SelectSeq(rules, LAMBDA rule : rule.profile = p)

\* BlockingRule.find(profile.id == p, active == True).to_list(): a collection
\* scan, which returns the documents in the store's (insertion) order
ActiveRulesOf(p) ==
    SelectSeq(rules, LAMBDA rule : rule.profile = p /\ rule.active)

\* the comparisons with the rule value taken as the manager entered it
RuleMatches_raw_value(rule, visited_url) ==
    LET rule_value == rule.rule_value
        domain == Lower(Netloc(visited_url))
    IN  \/ rule.rule_type = "DOMAIN" /\ domain = rule_value
        \/ rule.rule_type = "URL" /\ Lower(visited_url) = rule_value
        \/ rule.rule_type = "KEYWORD" /\ Contains(Lower(visited_url), rule_value)

\* the body of the loop: rule_value = rule.rule_value.lower(), then the
\* comparison of its rule_type
RuleMatches(rule, visited_url) ==
    LET rule_value == Lower(rule.rule_value)
        domain == Lower(Netloc(visited_url))
    IN  \/ rule.rule_type = "DOMAIN" /\ domain = rule_value
        \/ rule.rule_type = "URL" /\ Lower(visited_url) = rule_value
        \/ rule.rule_type = "KEYWORD" /\ Contains(Lower(visited_url), rule_value)

\* the loop without its break: the last matching rule stays
MatchingRule_no_break(rs, visited_url) ==
    LET I == {i \in 1..Len(rs) : RuleMatches(rs[i], visited_url)}
    IN  IF I = {} THEN 0 ELSE CHOOSE i \in I : \A j \in I : i >= j

\* the loop over the rules: the index at which it breaks, 0 when it runs out
MatchingRule(rs, visited_url) ==
    LET I == {i \in 1..Len(rs) : RuleMatches(rs[i], visited_url)}
    IN  IF I = {} THEN 0 ELSE CHOOSE i \in I : \A j \in I : i <= j


(***************************************************************************)
(* check_and_record_url and check_url (api/services/url_check_service.py), *)
(* one action per suspension point.                                        *)
(***************************************************************************)
\* the request slots: calls arrive one after the other in slot 1; a
\* specification with concurrent calls starts slot 2 as well
Reqs == {1, 2}

NoResult ==
    [kind |-> "none", domain |-> <<>>, malicious |-> FALSE, info |-> <<>>,
     source |-> "", is_blocked_by_user_rule |-> FALSE,
     blocking_rule_details |-> <<>>]

\* the dict check_and_record_url returns
Response(domain, malicious, info, source, blocked, details) ==
    [kind |-> "ok", domain |-> domain, malicious |-> malicious, info |-> info,
     source |-> source, is_blocked_by_user_rule |-> blocked,
     blocking_rule_details |-> details]

\* the exception check_and_record_url raises: ValueError, or Exception
Failure(kind) == [NoResult EXCEPT !.kind = kind]

\* no exchange with a source yet
NoExchange == [source |-> "", outcome |-> "", response |-> Raised]

\* The locals of one call.  n: the number of the call, which stands for the
\* ObjectId its record gets; enabled: url_checking_enabled of the profile
\* document loaded; rules: the rules loaded; calls: the sources and the resolver in the order
\* they were called; verdicts: what each answered (malicious or not); last: the
\* latest exchange; cacheWrites: set_to_cache calls; the rest as in the code.
IdleReq ==
    [pc |-> "idle", n |-> 0, token |-> "", url |-> <<>>, intel |-> {},
     profile |-> "", enabled |-> TRUE, rules |-> <<>>,
     psnap |-> NoProfileSnapshot, usnap |-> NoUserSnapshot,
     blocked |-> FALSE, snapshot |-> NoSnapshot, rulesLoad |-> "none",
     navId |-> 0, navWrite |-> "none",
     domain |-> <<>>, cacheRead |-> "none", cached |-> NoDict,
     calls |-> <<>>, verdicts |-> <<>>, last |-> NoExchange,
     cacheWrites |-> 0, cacheStored |-> FALSE,
     result |-> NoResult]

\* managed_profile_crud.get_by_token: the profile with this token, "" when none
get_by_token(token) ==
    IF \E p \in Profiles : profiles[p].token = token
    THEN CHOOSE p \in Profiles : profiles[p].token = token
    ELSE ""

\* a request arrives; intel: the sources whose data flag the URL's domain
Start(r, token, url, intel) ==
    /\ req[r].pc = "idle"
    /\ visits < MaxVisits
    /\ req' = [req EXCEPT ![r] =
                  [IdleReq EXCEPT !.pc = "get_by_token", !.n = visits + 1,
                                  !.token = token,
                                  !.url = url, !.intel = intel]]
    /\ visits' = visits + 1
    /\ UNCHANGED <<profiles, rules, ruleCount, history, cache, listing, reply,
                 elsewhere>>

\* 1. Validar perfil
GetByToken(r) ==
    /\ req[r].pc = "get_by_token"
    /\ LET profile == get_by_token(req[r].token)
       IN  req' = [req EXCEPT ![r] =
                      IF profile = ""
                      THEN [@ EXCEPT !.pc = "done", !.result = Failure("ValueError")]
                      ELSE [@ EXCEPT !.pc = "get_by_id", !.profile = profile,
                                     !.enabled = profiles[profile].url_checking_enabled]]
    /\ UNCHANGED <<profiles, rules, ruleCount, history, cache, visits, listing, reply,
                 elsewhere>>

\* create_from_profile_id_without_user_check: get_by_id, which raises
\* ValueError when the profile is gone, fetch_link and the two snapshots
GetById(r) ==
    /\ req[r].pc = "get_by_id"
    /\ req' = [req EXCEPT ![r] =
                  IF profiles[req[r].profile] = NoProfile
                  THEN [@ EXCEPT !.pc = "done", !.result = Failure("ValueError")]
                  ELSE [@ EXCEPT !.pc = "find_rules",
                                 !.psnap = ProfileSnapshot(req[r].profile),
                                 !.usnap = UserSnapshot(profiles[req[r].profile].manager_user)]]
    /\ UNCHANGED <<profiles, rules, ruleCount, history, cache, visits, listing, reply,
                 elsewhere>>

\* create_from_profile_id_without_user_check: the try block that loads the
\* active rules and matches them; ok = FALSE when it raises (swallowed)
FindRules(r, ok) ==
    /\ req[r].pc = "find_rules"
    /\ LET rs == ActiveRulesOf(req[r].profile)
           i == MatchingRule(rs, req[r].url)
       IN  req' = [req EXCEPT ![r] =
                      IF ok /\ i # 0
                      THEN [@ EXCEPT !.pc = "create", !.rulesLoad = "loaded",
                                     !.rules = rs, !.blocked = TRUE,
                                     !.snapshot = _create_rule_snapshot(rs[i])]
                      ELSE [@ EXCEPT !.pc = "create",
                                     !.rules = IF ok THEN rs ELSE <<>>,
                                     !.rulesLoad = IF ok THEN "loaded" ELSE "raised"]]
    /\ UNCHANGED <<profiles, rules, ruleCount, history, cache, visits, listing, reply,
                 elsewhere>>

\* the record written with blocked left at its default
CreateNavigation_default_blocked(r, ok) ==
    /\ req[r].pc = "create"
    /\ history' = Append(history,
           NavigationHistory(req[r].n, req[r].psnap, req[r].usnap,
                             req[r].url, FALSE, req[r].snapshot))
    /\ req' = [req EXCEPT ![r] =
                  [@ EXCEPT !.pc = "recorded", !.navWrite = "stored",
                            !.navId = Len(history) + 1]]
    /\ UNCHANGED <<profiles, rules, ruleCount, cache, visits, listing, reply,
                 elsewhere>>

\* navigation.create(); ok = FALSE when the write fails, which
\* check_and_record_url re-raises as Exception
CreateNavigation(r, ok) ==
    /\ req[r].pc = "create"
    /\ IF ok
       THEN /\ history' = Append(history,
                   NavigationHistory(req[r].n, req[r].psnap, req[r].usnap,
                                     req[r].url, req[r].blocked, req[r].snapshot))
            /\ req' = [req EXCEPT ![r] =
                          [@ EXCEPT !.pc = "recorded", !.navWrite = "stored",
                                    !.navId = Len(history) + 1]]
       ELSE /\ history' = history
            /\ req' = [req EXCEPT ![r] =
                          [@ EXCEPT !.pc = "done", !.navWrite = "raised",
                                    !.result = Failure("Exception")]]
    /\ UNCHANGED <<profiles, rules, ruleCount, cache, visits, listing, reply,
                 elsewhere>>

\* "Bloqueado por regla {rule_type}: {rule_value}"
BlockingDetails(snapshot) ==
    IF snapshot.present
    THEN <<<<"Bloqueado por regla">>, <<snapshot.rule_type>>, snapshot.rule_value>>
    ELSE <<<<"URL bloqueada por reglas del perfil">>>>

\* check_and_record_url resumes after the record: the blocked answer, or
\* check_url up to its cache lookup; up = whether Memcached answers
AfterRecord(r, up) ==
    /\ req[r].pc = "recorded"
    /\ LET domain == get_domain_from_url(req[r].url)
           cached_result == get_from_cache(domain, up)
       IN  req' = [req EXCEPT ![r] =
              IF req[r].blocked
              THEN [@ EXCEPT !.pc = "done", !.domain = domain,
                             !.result = Response(domain, FALSE,
                                 <<"URL bloqueada por reglas de filtrado del perfil">>,
                                 "User Rules", TRUE, BlockingDetails(req[r].snapshot))]
              ELSE IF cached_result.hit
              THEN [@ EXCEPT !.pc = "done", !.domain = domain,
                             !.cacheRead = "hit", !.cached = cached_result,
                             !.result = Response(domain, cached_result.malicious,
                                 cached_result.info, "Cache", FALSE, <<>>)]
              ELSE [@ EXCEPT !.pc = "urlscanio", !.domain = domain,
                             !.cacheRead = IF up THEN "miss" ELSE "raised"]]
    /\ UNCHANGED <<profiles, rules, ruleCount, history, cache, visits, listing, reply,
                 elsewhere>>

\* check_url caching a malicious verdict under a fixed explanation
AfterSource_fixed_info(r, s, outcome, response, up, next) ==
    LET called == [req[r] EXCEPT !.calls = Append(@, s),
                                 !.verdicts = Append(@, response.malicious),
                                 !.last = [source |-> s, outcome |-> outcome,
                                           response |-> response]]
    IN  IF response.malicious
        THEN /\ cache' = set_to_cache(req[r].domain, TRUE, <<"malicioso">>, up)
             /\ req' = [req EXCEPT ![r] =
                           [called EXCEPT !.pc = "done",
                                          !.cacheWrites = @ + 1,
                                          !.cacheStored = up,
                                          !.result = Response(req[r].domain,
                                              response.malicious, response.info,
                                              response.source, FALSE, <<>>)]]
        ELSE /\ req' = [req EXCEPT ![r] = [called EXCEPT !.pc = next]]
             /\ cache' = cache

\* check_url not returning on a malicious answer
AfterSource_no_return(r, s, outcome, response, up, next) ==
    /\ req' = [req EXCEPT ![r] =
                  [@ EXCEPT !.pc = next, !.calls = Append(@, s),
                            !.verdicts = Append(@, response.malicious),
                            !.last = [source |-> s, outcome |-> outcome,
                                      response |-> response]]]
    /\ cache' = cache

\* check_url after source s answered: the exception goes up, a malicious
\* verdict is cached and returned, anything else leads to step next
AfterSource(r, s, outcome, response, up, next) ==
    LET called == [req[r] EXCEPT !.calls = Append(@, s),
                                 !.verdicts = Append(@, response.malicious),
                                 !.last = [source |-> s, outcome |-> outcome,
                                           response |-> response]]
    IN  IF response.raised
        THEN /\ req' = [req EXCEPT ![r] =
                           [called EXCEPT !.pc = "done",
                                          !.result = Failure("Exception")]]
             /\ cache' = cache
        ELSE IF response.malicious
        THEN /\ cache' = set_to_cache(req[r].domain, response.malicious,
                                      response.info, up)
             /\ req' = [req EXCEPT ![r] =
                           [called EXCEPT !.pc = "done",
                                          !.cacheWrites = @ + 1,
                                          !.cacheStored = up,
                                          !.result = Response(req[r].domain,
                                              response.malicious, response.info,
                                              response.source, FALSE, <<>>)]]
        ELSE /\ req' = [req EXCEPT ![r] = [called EXCEPT !.pc = next]]
             /\ cache' = cache

\* check_url caches and returns a safe verdict
SafeVerdict(r, called, info, up) ==
    /\ cache' = set_to_cache(req[r].domain, FALSE, info, up)
    /\ req' = [req EXCEPT ![r] =
                  [called EXCEPT !.pc = "done",
                                 !.cacheWrites = @ + 1,
                                 !.cacheStored = up,
                                 !.result = Response(req[r].domain, FALSE, info,
                                                     "Multi-API", FALSE, <<>>)]]

\* 2. Consultar URLScan.io
CallUrlscanio(r, outcome, up) ==
    /\ req[r].pc = "urlscanio"
    /\ outcome \in OutcomesOf(ScanIndex, req[r].intel)
    /\ AfterSource(r, ScanIndex, outcome,
                   check_urlscanio(req[r].domain, outcome), up, "threatfox")
    /\ UNCHANGED <<profiles, rules, ruleCount, history, visits, listing, reply,
                 elsewhere>>

\* 3. Consultar ThreatFox
CallThreatfox(r, outcome, up) ==
    /\ req[r].pc = "threatfox"
    /\ outcome \in OutcomesOf(IOCFeed, req[r].intel)
    /\ AfterSource(r, IOCFeed, outcome,
                   check_threatfox(req[r].domain, outcome), up, "get_ip")
    /\ UNCHANGED <<profiles, rules, ruleCount, history, visits, listing, reply,
                 elsewhere>>

\* get_ip_from_url called outside the try block
GetIp_unguarded(r, resolved, up) ==
    /\ req[r].pc = "get_ip"
    /\ req' = [req EXCEPT ![r] =
                  IF resolved
                  THEN [@ EXCEPT !.pc = "abuseipdb", !.calls = Append(@, "DNS"),
                                 !.verdicts = Append(@, FALSE)]
                  ELSE [@ EXCEPT !.pc = "done", !.calls = Append(@, "DNS"),
                                 !.verdicts = Append(@, FALSE),
                                 !.result = Failure("Exception")]]
    /\ UNCHANGED <<profiles, rules, ruleCount, history, cache, visits, listing, reply,
                 elsewhere>>

\* 4. get_ip_from_url; resolved = FALSE when it raises
GetIp(r, resolved, up) ==
    /\ req[r].pc = "get_ip"
    /\ LET called == [req[r] EXCEPT !.calls = Append(@, "DNS"),
                                    !.verdicts = Append(@, FALSE)]
       IN  IF resolved
           THEN /\ req' = [req EXCEPT ![r] = [called EXCEPT !.pc = "abuseipdb"]]
                /\ cache' = cache
           ELSE SafeVerdict(r, called,
                            <<"No se pudo obtener la IP del dominio.">>, up)
    /\ UNCHANGED <<profiles, rules, ruleCount, history, visits, listing, reply,
                 elsewhere>>

\* 4. Consultar AbuseIPDB, and 5. the safe result when it does not flag
CallAbuseipdb(r, outcome, up) ==
    /\ req[r].pc = "abuseipdb"
    /\ outcome \in OutcomesOf(IPReputation, req[r].intel)
    /\ LET response == check_abuseipdb(req[r].domain, outcome)
           called == [req[r] EXCEPT !.calls = Append(@, IPReputation),
                                    !.verdicts = Append(@, response.malicious),
                                    !.last = [source |-> IPReputation,
                                              outcome |-> outcome,
                                              response |-> response]]
       IN  IF response.raised \/ response.malicious
           THEN AfterSource(r, IPReputation, outcome, response, up, "done")
           ELSE SafeVerdict(r, called,
                    <<"No se detectaron senales de peligro en fuentes consultadas.">>, up)
    /\ UNCHANGED <<profiles, rules, ruleCount, history, visits, listing, reply,
                 elsewhere>>

\* the answer is delivered; the slot is free again
Return(r) ==
    /\ req[r].pc = "done"
    /\ req' = [req EXCEPT ![r] = IdleReq]
    /\ UNCHANGED <<profiles, rules, ruleCount, history, cache, visits, listing, reply,
                 elsewhere>>

\* the steps of the calls in flight, and the arrival of a call; the inputs are
\* drawn from tokens, urls and intels, the sources' answers from outcomes, the
\* availability of Memcached, MongoDB and the resolver from ups
Evaluate(tokens, urls, intels, outcomes, ups) ==
    \/ \E token \in tokens, url \in urls, intel \in intels :
           Start(1, token, url, intel)
    \/ \E r \in Reqs : GetByToken(r)
    \/ \E r \in Reqs : GetById(r)
    \/ \E r \in Reqs, ok \in ups : FindRules(r, ok)
    \/ \E r \in Reqs, ok \in ups : CreateNavigation(r, ok)
    \/ \E r \in Reqs, up \in ups : AfterRecord(r, up)
    \/ \E r \in Reqs, outcome \in outcomes, up \in ups : CallUrlscanio(r, outcome, up)
    \/ \E r \in Reqs, outcome \in outcomes, up \in ups : CallThreatfox(r, outcome, up)
    \/ \E r \in Reqs, resolved \in ups, up \in ups : GetIp(r, resolved, up)
    \/ \E r \in Reqs, outcome \in outcomes, up \in ups : CallAbuseipdb(r, outcome, up)
    \/ \E r \in Reqs : Return(r)

(***************************************************************************)
(* The managers' operations on rules and profiles.                         *)
(***************************************************************************)
RuleIds == {rules[i].id : i \in 1..Len(rules)}
RuleById(id) == rules[CHOOSE i \in 1..Len(rules) : rules[i].id = id]

\* no request to the rule services yet
NoReply == [user |-> "", profile |-> "", outcome |-> "none"]

\* the service returned the rule, for a request of user about a rule of
\* profile
Returned(user, profile) == [user |-> user, profile |-> profile, outcome |-> "returned"]

\* the service raised HTTPException(status_code)
HTTPException(user, profile, status_code) ==
    [user |-> user, profile |-> profile, outcome |-> status_code]

\* the profile document is in the store
Exists(p) == p \in Profiles /\ profiles[p] # NoProfile

\* the ownership test of the update and delete services
Manages(user, p) == Exists(p) /\ profiles[p].manager_user = user

\* the update and delete services with the ownership test left out
RuleRequest_unchecked(user, id, changed) ==
    /\ IF id \notin RuleIds
       THEN /\ reply' = HTTPException(user, "", "404")
            /\ rules' = rules
       ELSE /\ reply' = Returned(user, RuleById(id).profile)
            /\ rules' = changed
    /\ UNCHANGED <<profiles, ruleCount, history, cache, req, visits, listing,
                 elsewhere>>

\* update_blocking_rule_service and delete_blocking_rule_service: 404 when the
\* rule does not exist, 403 unless the caller manages the rule's profile, else
\* the store becomes changed
RuleRequest(user, id, changed) ==
    /\ IF id \notin RuleIds
       THEN /\ reply' = HTTPException(user, "", "404")
            /\ rules' = rules
       ELSE IF ~Manages(user, RuleById(id).profile)
       THEN /\ reply' = HTTPException(user, RuleById(id).profile, "403")
            /\ rules' = rules
       ELSE /\ reply' = Returned(user, RuleById(id).profile)
            /\ rules' = changed
    /\ UNCHANGED <<profiles, ruleCount, history, cache, req, visits, listing,
                 elsewhere>>

\* create_blocking_rule_for_profile_service: 404 when the profile does not
\* exist, 403 unless the caller manages it
CreateRule(user, p, t, v, active) ==
    /\ ruleCount < MaxRules
    /\ IF ~Exists(p)
       THEN /\ reply' = HTTPException(user, p, "404")
            /\ UNCHANGED <<rules, ruleCount>>
       ELSE IF profiles[p].manager_user # user
       THEN /\ reply' = HTTPException(user, p, "403")
            /\ UNCHANGED <<rules, ruleCount>>
       ELSE /\ reply' = Returned(user, p)
            /\ rules' = Append(rules,
                   [id |-> ruleCount + 1, profile |-> p, rule_type |-> t,
                    rule_value |-> v, active |-> active,
                    description |-> <<"regla", ToString(ruleCount + 1)>>])
            /\ ruleCount' = ruleCount + 1
    /\ UNCHANGED <<profiles, history, cache, req, visits, listing, elsewhere>>

\* update_blocking_rule_service with BlockingRuleUpdate(active=...)
UpdateRule(user, id, active) ==
    RuleRequest(user, id,
        [i \in 1..Len(rules) |->
            IF rules[i].id = id THEN [rules[i] EXCEPT !.active = active]
            ELSE rules[i]])

\* delete_blocking_rule_service
DeleteRule(user, id) ==
    RuleRequest(user, id, SelectSeq(rules, LAMBDA rule : rule.id # id))

\* update_managed_profile with ManagedProfileUpdate(url_checking_enabled=...)
UpdateProfile(user, p, enabled) ==
    /\ profiles[p].manager_user = user
    /\ profiles[p].url_checking_enabled # enabled
    /\ profiles' = [profiles EXCEPT ![p].url_checking_enabled = enabled]
    /\ UNCHANGED <<rules, ruleCount, history, cache, req, visits, listing, reply,
                 elsewhere>>

\* update_blocking_rule_service with BlockingRuleUpdate(description=...)
DescribeRule(user, id, description) ==
    RuleRequest(user, id,
        [i \in 1..Len(rules) |->
            IF rules[i].id = id THEN [rules[i] EXCEPT !.description = description]
            ELSE rules[i]])

\* delete_managed_profile: only the profile document goes
DeleteProfile(user, p) ==
    /\ profiles[p] # NoProfile
    /\ profiles[p].manager_user = user
    /\ profiles' = [profiles EXCEPT ![p] = NoProfile]
    /\ UNCHANGED <<rules, ruleCount, history, cache, req, visits, listing, reply,
                 elsewhere>>

\* navigation_history_crud.delete_by_profile
DeleteByProfile(profile_id) ==
    /\ \E i \in 1..Len(history) : history[i].profile_snapshot.id = profile_id
    /\ history' = SelectSeq(history,
                      LAMBDA record : record.profile_snapshot.id # profile_id)
    /\ UNCHANGED <<profiles, rules, ruleCount, cache, req, visits, listing, reply,
                 elsewhere>>

\* Memcached drops an entry whose MEMCACHED_TIMEOUT has passed
Expire(key) ==
    /\ cache[key] # NoBlob
    /\ cache' = [cache EXCEPT ![key] = NoBlob]
    /\ UNCHANGED <<profiles, rules, ruleCount, history, req, visits, listing, reply,
                 elsewhere>>

(***************************************************************************)
(* The history listing (api/services/navigation_history_service.py).       *)
(***************************************************************************)
MaxPage == 3
PageSizes == {1, 2}

NoListing == [kind |-> "none"]

\* math.ceil(total_count / page_size)
Ceil(total_count, page_size) == (total_count + page_size - 1) \div page_size

Reverse(seq) == [i \in 1..Len(seq) |-> seq[Len(seq) + 1 - i]]

\* .skip(skip).limit(page_size).to_list() over the records selected, without
\* the sort
SortSkipLimit_unsorted(selected, skip, page_size) ==
    SubSeq(selected, skip + 1,
           IF skip + page_size < Len(selected) THEN skip + page_size
           ELSE Len(selected))

\* .sort([("visited_at", -1)]).skip(skip).limit(page_size).to_list() over the
\* records selected; visited_at grows with the order of creation
SortSkipLimit(selected, skip, page_size) ==
    LET sorted == Reverse(selected)
    IN  SubSeq(sorted, skip + 1,
               IF skip + page_size < Len(sorted) THEN skip + page_size
               ELSE Len(sorted))

\* (records, total_count) of a profile's records
get_profile_history_paginated(profile_id, page, page_size) ==
    LET selected == SelectSeq(history,
                       LAMBDA record : record.profile_snapshot.id = profile_id)
    IN  [records |-> SortSkipLimit(selected, (page - 1) * page_size, page_size),
         total_count |-> Len(selected)]

\* (records, total_count) of a profile's blocked records
get_blocked_history_paginated(profile_id, page, page_size) ==
    LET selected == SelectSeq(history,
                       LAMBDA record : /\ record.profile_snapshot.id = profile_id
                                       /\ record.blocked)
    IN  [records |-> SortSkipLimit(selected, (page - 1) * page_size, page_size),
         total_count |-> Len(selected)]

\* the item with the rule's data joined from the rule store
NavigationHistoryResponse_joined(record) ==
    LET live == {rules[i] : i \in 1..Len(rules)}
        found == {rule \in live : rule.id = record.blocking_rule_snapshot.id}
        rule == IF found = {} THEN NoSnapshot ELSE CHOOSE x \in found : TRUE
    IN  [id |-> record.id, visited_url |-> record.visited_url,
         blocked |-> record.blocked,
         profile_id |-> record.profile_snapshot.id,
         profile_name |-> record.profile_snapshot.name,
         user_id |-> record.user_snapshot.id,
         user_email |-> record.user_snapshot.email,
         user_username |-> record.user_snapshot.username,
         blocking_rule_id |-> rule.id,
         blocking_rule_type |-> rule.rule_type,
         blocking_rule_value |-> rule.rule_value,
         blocking_rule_description |-> rule.description]

\* one item of the listing
NavigationHistoryResponse(record) ==
    [id |-> record.id, visited_url |-> record.visited_url,
     blocked |-> record.blocked,
     profile_id |-> record.profile_snapshot.id,
     profile_name |-> record.profile_snapshot.name,
     user_id |-> record.user_snapshot.id,
     user_email |-> record.user_snapshot.email,
     user_username |-> record.user_snapshot.username,
     blocking_rule_id |-> IF record.blocking_rule_snapshot.present
                          THEN record.blocking_rule_snapshot.id ELSE 0,
     blocking_rule_type |-> IF record.blocking_rule_snapshot.present
                            THEN record.blocking_rule_snapshot.rule_type ELSE "",
     blocking_rule_value |-> IF record.blocking_rule_snapshot.present
                             THEN record.blocking_rule_snapshot.rule_value ELSE <<>>,
     blocking_rule_description |-> IF record.blocking_rule_snapshot.present
                                   THEN record.blocking_rule_snapshot.description
                                   ELSE <<>>]

PaginatedResponse(total_items, total_pages, current_page, page_size, items) ==
    [kind |-> "ok", total_items |-> total_items, total_pages |-> total_pages,
     current_page |-> current_page, page_size |-> page_size, items |-> items]

\* managed_profile_crud.check_ownership
check_ownership(profile_id, user_id) ==
    /\ profile_id \in Profiles
    /\ profiles[profile_id].manager_user = user_id

get_profile_history_for_frontend(profile_id, current_user, page, page_size, blocked_only) ==
    IF ~check_ownership(profile_id, current_user)
    THEN [kind |-> "ValueError"]
    ELSE LET found == IF blocked_only
                      THEN get_blocked_history_paginated(profile_id, page, page_size)
                      ELSE get_profile_history_paginated(profile_id, page, page_size)
             items == [i \in 1..Len(found.records) |->
                          NavigationHistoryResponse(found.records[i])]
             total_pages == IF found.total_count > 0
                            THEN Ceil(found.total_count, page_size) ELSE 0
         IN  PaginatedResponse(found.total_count, total_pages, page, page_size, items)

\* GET /navigation-history/profile/{profile_id}: page >= 1, page_size >= 1
GetHistory(profile_id, current_user, page, page_size, blocked_only) ==
    /\ listing' = get_profile_history_for_frontend(profile_id, current_user,
                                                   page, page_size, blocked_only)
                   @@ [asked_profile |-> profile_id, asked_by |-> current_user,
                       asked_blocked_only |-> blocked_only]
    /\ UNCHANGED <<profiles, rules, ruleCount, history, cache, req, visits, reply,
                 elsewhere>>

(***************************************************************************)
(* Password recovery (services/password_reset_service.py).                 *)
(***************************************************************************)
\* the clock counts hours
MaxClock == 2
MaxTokens == 2
token_expire_hours == 1
\* mark_token_as_used forgets the entries older than this many hours
PruneHours == 2

\* the addresses asked about: that of user u1, and one no user has
Registered == UserDoc("u1").email
Unregistered == <<"nadie", "@mail">>
Emails == {Registered, Unregistered}

MIN_PASSWORD_LENGTH == 8
UpperCase == {"A"}
LowerCase == {"a"}
Digits == {"1"}
Specials == {"!"}
is_password_strong_enough(password) ==
    /\ Len(password) >= MIN_PASSWORD_LENGTH
    /\ \E i \in 1..Len(password) : password[i] \in UpperCase
    /\ \E i \in 1..Len(password) : password[i] \in LowerCase
    /\ \E i \in 1..Len(password) : password[i] \in Digits
    /\ \E i \in 1..Len(password) : password[i] \in Specials

OldPassword == <<"A", "a", "1", "!", "a", "a", "a", "a">>
NewPassword == <<"A", "a", "1", "!", "a", "a", "a", "A">>
WeakPassword == <<"a", "a", "1", "!", "a", "a", "a", "a">>
get_password_hash(password) == <<"hash">> \o password

\* a JWT signed with SECRET_KEY: its payload
generate_reset_token(user_email, jti) ==
    [sub |-> user_email, type |-> "password_reset",
     exp |-> now + token_expire_hours, iat |-> now,
     jti |-> jti, signed |-> TRUE]
\* a token of the right shape that SECRET_KEY did not sign
ForgedToken ==
    [sub |-> Registered, type |-> "password_reset",
     exp |-> MaxClock + 1, iat |-> 0, jti |-> 0, signed |-> FALSE]
Generated == {reset_tokens[i] : i \in 1..Len(reset_tokens)}
\* what a client may present: a token it was mailed, or the forged one
Presented == Generated \cup {ForgedToken}
\* every token that can be written down
ResetTokens ==
    {[sub |-> Registered, type |-> "password_reset",
      exp |-> iat + token_expire_hours, iat |-> iat,
      jti |-> jti, signed |-> TRUE] : iat \in 0..MaxClock, jti \in 1..MaxTokens}
        \cup {ForgedToken}

\* verify_reset_token: the email of the token, or None
verify_reset_token(token, used, clock) ==
    IF token \in DOMAIN used THEN NoneVal
    ELSE IF ~token.signed THEN NoneVal          \* InvalidTokenError
    ELSE IF token.exp <= clock THEN NoneVal     \* ExpiredSignatureError
    ELSE IF token.type # "password_reset" THEN NoneVal
    ELSE IF token.sub = <<>> THEN NoneVal
    ELSE token.sub

mark_token_as_used_forgetful(token, used, clock) ==
    LET marked == [t \in DOMAIN used \cup {token} |->
                      IF t = token THEN clock ELSE used[t]]
    IN  [t \in {u \in DOMAIN marked : marked[u] > clock} |-> marked[t]]

\* mark_token_as_used: the dictionary afterwards
mark_token_as_used(token, used, clock) ==
    LET marked == [t \in DOMAIN used \cup {token} |->
                      IF t = token THEN clock ELSE used[t]]
        cutoff_time == clock - PruneHours
    IN  [t \in {u \in DOMAIN marked : marked[u] > cutoff_time} |-> marked[t]]

ResetSlots == {1, 2}
NoToken == [sub |-> <<>>, type |-> "", exp |-> 0, iat |-> 0, jti |-> 0,
            signed |-> FALSE]
IdleReset ==
    [pc |-> "idle", token |-> NoToken, new_password |-> <<>>,
     user_email |-> <<>>, changed |-> FALSE, success |-> FALSE,
     message |-> <<>>]
\* the call has returned: its token and what it answered remain
Answered(call, success, message) ==
    [call EXCEPT !.pc = "done", !.success = success, !.message = message,
                 !.new_password = <<>>, !.user_email = <<>>]

PasswordResetResponse_telling(email, lookup, mail) ==
    [success |-> TRUE,
     message |-> IF lookup = "answered" /\ email \in DOMAIN passwords
                 THEN <<"Correo enviado">>
                 ELSE <<"Si tu email esta registrado">>,
     email |-> email, lookup |-> lookup, mail |-> mail]

NoAnswer == [success |-> FALSE, message |-> <<>>, email |-> <<>>,
             lookup |-> "", mail |-> ""]
\* PasswordResetResponse of POST /request-password-reset, with what was asked
\* and how the lookup and the mail went
PasswordResetResponse(email, lookup, mail) ==
    [success |-> TRUE, message |-> <<"Si tu email esta registrado">>,
     email |-> email, lookup |-> lookup, mail |-> mail]

RecoveryInit ==
    /\ now = 0
    /\ reset_tokens = <<>>
    /\ used_tokens = <<>>
    /\ passwords = (Registered :> get_password_hash(OldPassword))
    /\ resets = [s \in ResetSlots |-> IdleReset]
    /\ reset_answer = NoAnswer

core == <<profiles, rules, ruleCount, history, cache, req, visits, listing, reply>>

Tick ==
    /\ now < MaxClock
    /\ now' = now + 1
    /\ UNCHANGED <<core, linking, feeds, reset_tokens, used_tokens, passwords, resets, reset_answer>>

\* crud_user.get_user_by_email: the user's email, or None
get_user_by_email(email) ==
    IF email \in DOMAIN passwords THEN email ELSE NoneVal

\* POST /request-password-reset: the lookup answers or raises; the mail is
\* sent, is refused (send_email returns False) or raises
RequestPasswordReset(email, lookup, mail) ==
    /\ Len(reset_tokens) < MaxTokens
    /\ reset_tokens' = IF lookup = "answered" /\ get_user_by_email(email) # NoneVal
                 THEN Append(reset_tokens, generate_reset_token(email, Len(reset_tokens) + 1))
                 ELSE reset_tokens
    /\ reset_answer' = PasswordResetResponse(email, lookup, mail)
    /\ UNCHANGED <<core, linking, feeds, now, used_tokens, passwords, resets>>

\* reset_password up to its first await: the strength check and the token
\* check
BeginReset(s, token, new_password) ==
    /\ resets[s].pc \in {"idle", "done"}
    /\ token \in Presented
    /\ LET call == [IdleReset EXCEPT !.token = token,
                                     !.new_password = new_password]
           user_email == verify_reset_token(token, used_tokens, now)
       IN  resets' = [resets EXCEPT ![s] =
               IF ~is_password_strong_enough(new_password)
               THEN Answered(call, FALSE, <<"La contrasena no cumple">>)
               ELSE IF user_email = NoneVal
               THEN Answered(call, FALSE, <<"Token invalido o expirado">>)
               ELSE [call EXCEPT !.pc = "get_user_by_email",
                                 !.user_email = user_email]]
    /\ UNCHANGED <<core, linking, feeds, now, reset_tokens, used_tokens, passwords, reset_answer>>

\* get_user_by_email returns or raises; with a user, the token is marked as
\* used before the next await
FindUser(s, raised) ==
    /\ resets[s].pc = "get_user_by_email"
    /\ IF raised
       THEN /\ resets' = [resets EXCEPT ![s] =
                             Answered(@, FALSE, <<"Error interno del servidor">>)]
            /\ UNCHANGED used_tokens
       ELSE IF get_user_by_email(resets[s].user_email) = NoneVal
       THEN /\ resets' = [resets EXCEPT ![s] =
                             Answered(@, FALSE, <<"Usuario no encontrado">>)]
            /\ UNCHANGED used_tokens
       ELSE /\ used_tokens' = mark_token_as_used(resets[s].token, used_tokens, now)
            /\ resets' = [resets EXCEPT ![s].pc = "update_user_password"]
    /\ UNCHANGED <<core, linking, feeds, now, reset_tokens, passwords, reset_answer>>

\* crud_user.update_user_password stores the hash, or raises
UpdateUserPassword(s, raised) ==
    /\ resets[s].pc = "update_user_password"
    /\ IF raised
       THEN /\ resets' = [resets EXCEPT ![s] =
                             Answered(@, FALSE, <<"Error interno del servidor">>)]
            /\ UNCHANGED passwords
       ELSE /\ passwords' = [passwords EXCEPT ![resets[s].user_email] =
                                get_password_hash(resets[s].new_password)]
            /\ resets' = [resets EXCEPT ![s].pc = "send_notification",
                                        ![s].changed = TRUE]
    /\ UNCHANGED <<core, linking, feeds, now, reset_tokens, used_tokens, reset_answer>>

\* send_password_changed_notification returns, whatever the mail server did
SendNotification(s) ==
    /\ resets[s].pc = "send_notification"
    /\ resets' = [resets EXCEPT ![s] =
                     Answered(@, TRUE, <<"Contrasena actualizada exitosamente">>)]
    /\ UNCHANGED <<core, linking, feeds, now, reset_tokens, used_tokens, passwords, reset_answer>>

(***************************************************************************)
(* Linking an extension to a profile (managed_profile_service.py).         *)
(***************************************************************************)
Extensions == {<<"e1">>, <<"e2">>, <<"e3">>}
\* create_managed_profile gives each profile a link code no other profile has
LinkCodeOf(p) == <<"code", p>>
UnknownCode == <<"code", "x">>
LinkCodes == {LinkCodeOf(p) : p \in Profiles} \cup {UnknownCode}

LinkingInit ==
    /\ links = [p \in Profiles |->
                   [link_code |-> LinkCodeOf(p), link_status |-> "waiting_for_link",
                    extension_instance_id |-> NoneVal,
                    last_extension_communication |-> <<>>]]
    /\ link_reply = [status_code |-> 0, link_code |-> <<>>,
                     extension_instance_id |-> <<>>, profile |-> ""]

HeldBy(link_code) == {p \in Profiles : links[p].link_code = link_code}
\* session.exec(statement).first(): any one of the rows that match
get_managed_profile_by_link_code(link_code) == HeldBy(link_code)
get_managed_profile_by_extension_instance_id(extension_instance_id) ==
    {p \in Profiles : links[p].extension_instance_id = extension_instance_id}

Linked(profile, extension_instance_id) ==
    [links EXCEPT ![profile] =
        [link_code |-> NoneVal, link_status |-> "linked",
         extension_instance_id |-> extension_instance_id,
         last_extension_communication |-> <<now>>]]

link_extension_to_profile_unchecked(profile, extension_instance_id) ==
    [status_code |-> 200, links |-> Linked(profile, extension_instance_id)]

\* link_extension_to_profile once the profile of the code is found: the
\* status it answers and the profiles afterwards
link_extension_to_profile(profile, extension_instance_id) ==
    IF /\ links[profile].link_status = "linked"
       /\ links[profile].extension_instance_id # NoneVal
       /\ links[profile].extension_instance_id # extension_instance_id
    THEN [status_code |-> 409, links |-> links]
    ELSE IF \E existing \in get_managed_profile_by_extension_instance_id(
                                extension_instance_id) : existing # profile
    THEN [status_code |-> 409, links |-> links]
    ELSE [status_code |-> 200, links |-> Linked(profile, extension_instance_id)]

\* POST of a LinkExtensionRequest; the handler has no await
LinkExtension(link_code, extension_instance_id) ==
    /\ IF get_managed_profile_by_link_code(link_code) = {}
       THEN /\ links' = links
            /\ link_reply' = [status_code |-> 400, link_code |-> link_code,
                              extension_instance_id |-> extension_instance_id,
                              profile |-> ""]
       ELSE \E profile \in get_managed_profile_by_link_code(link_code) :
                LET done == link_extension_to_profile(profile, extension_instance_id)
                IN  /\ links' = done.links
                    /\ link_reply' = [status_code |-> done.status_code,
                                      link_code |-> link_code,
                                      extension_instance_id |-> extension_instance_id,
                                      profile |-> profile]
    /\ UNCHANGED <<core, recovery, feeds>>

(***************************************************************************)
(* The answer of the IOC feed (utils/external_apis/threatfox.py).          *)
(***************************************************************************)
MaxIocs == 3
ConfidenceThreshold == 50
Confidences == {49, 50, 75}
QueryStatuses == {"ok", "no_result", "illegal_search_term"}

\* ThreatFoxResponse: the IOCs carry their position as their value
ThreatFoxResponse(query_status, levels) ==
    [query_status |-> query_status,
     data |-> [i \in 1..Len(levels) |->
                  [ioc |-> <<"ioc", i>>, confidence_level |-> levels[i]]]]

LevelLists == UNION {[1..n -> Confidences] : n \in 0..MaxIocs}
FeedAnswers ==
    {ThreatFoxResponse(q, levels) : q \in QueryStatuses, levels \in LevelLists}

NoFeedAnswer == [query_status |-> "", data |-> <<>>]
NoVerdict == [raised |-> FALSE, domain |-> <<>>, malicious |-> FALSE,
              info |-> <<>>, source |-> ""]

\* the info of a finding names the IOC and its confidence
Finding(ioc) == <<"ThreatFox", "IOC", ioc.ioc, ioc.confidence_level>>

check_threatfox_parsed_first(domain, parsed) ==
    LET confiables == {i \in 1..Len(parsed.data) :
                          parsed.data[i].confidence_level >= ConfidenceThreshold}
    IN  IF parsed.query_status = "ok" /\ confiables # {}
        THEN URLResponse(domain, TRUE,
                 Finding(parsed.data[CHOOSE i \in confiables :
                                         \A j \in confiables : i <= j]),
                 "ThreatFox")
        ELSE URLResponse(domain, FALSE, <<"ThreatFox", "no encontrado">>, "ThreatFox")

\* check_threatfox after the answer was parsed: max() keeps the first of the
\* IOCs with the highest confidence_level
check_threatfox_parsed(domain, parsed) ==
    IF parsed.query_status = "ok" /\ Len(parsed.data) > 0
    THEN LET confiables ==
                 {i \in 1..Len(parsed.data) :
                     parsed.data[i].confidence_level >= ConfidenceThreshold}
         IN  IF confiables # {}
             THEN LET ioc_confiable ==
                          CHOOSE i \in confiables :
                              \A j \in confiables :
                                  \/ parsed.data[j].confidence_level
                                         < parsed.data[i].confidence_level
                                  \/ /\ parsed.data[j].confidence_level
                                            = parsed.data[i].confidence_level
                                     /\ i <= j
                  IN  URLResponse(domain, TRUE, Finding(parsed.data[ioc_confiable]),
                                  "ThreatFox")
             ELSE URLResponse(domain, FALSE,
                              <<"ThreatFox", "no encontrado con IOCs confiables">>,
                              "ThreatFox")
    ELSE IF parsed.query_status = "no_result"
    THEN URLResponse(domain, FALSE, <<"ThreatFox", "no encontrado">>, "ThreatFox")
    ELSE URLResponse(domain, FALSE, <<"ThreatFox", "estado", parsed.query_status>>,
                     "ThreatFox")

FeedsInit ==
    /\ feed = NoFeedAnswer
    /\ feed_verdict = NoVerdict

\* check_threatfox with the answer the feed gave
CheckThreatfox(domain) ==
    /\ feed_verdict = NoVerdict
    /\ feed_verdict' = check_threatfox_parsed(domain, feed)
    /\ UNCHANGED <<core, recovery, linking, feed>>

(***************************************************************************)
(* The specifications.                                                     *)
(***************************************************************************)
CoreInit ==
    /\ profiles = [p \in Profiles |->
                      [name |-> <<"perfil", p>>, token |-> TokenOf(p),
                       manager_user |-> ManagerOf(p),
                       url_checking_enabled |-> TRUE]]
    /\ rules = <<>>
    /\ ruleCount = 0
    /\ history = <<>>
    /\ cache = [k \in CacheKeys |-> NoBlob]
    /\ req = [r \in Reqs |-> IdleReq]
    /\ visits = 0
    /\ listing = NoListing
    /\ reply = NoReply

Init == CoreInit /\ RecoveryInit /\ LinkingInit /\ FeedsInit

\* Policy and evaluation: its manager edits the rules of profile p1 and its
\* url_checking_enabled flag while the extension reports visits with the
\* profile's token or an unknown one; no source flags the visited domains.
Manage ==
    \/ \E t \in RuleTypes, active \in BOOLEAN :
           \E v \in RuleValues(t) : CreateRule("u1", "p1", t, v, active)
    \/ \E id \in RuleIds, active \in BOOLEAN : UpdateRule("u1", id, active)
    \/ \E id \in RuleIds : DeleteRule("u1", id)
    \/ \E enabled \in BOOLEAN : UpdateProfile("u1", "p1", enabled)

Next ==
    \/ Evaluate({"tok-p1", "tok-unknown"}, {UrlPlain, UrlPort, UrlSub}, {{}},
                {"clean"}, BOOLEAN)
    \/ Manage

Spec == Init /\ [][Next]_vars

\* Rule matching and the record: a manager adds rules, active or not, to
\* profile p1, whose visits are evaluated; MongoDB, Memcached and the resolver
\* may fail.
RecordNext ==
    \/ Evaluate({"tok-p1"}, {UrlPlain, UrlSub}, {{}}, {"clean"}, BOOLEAN)
    \/ \E t \in RuleTypes, active \in BOOLEAN :
           \E v \in RuleValues(t) : CreateRule("u1", "p1", t, v, active)

RecordSpec == Init /\ [][RecordNext]_vars

\* The reputation waterfall: visits of one profile, the sources' data and
\* availability varying, cache entries expiring.
WaterfallNext ==
    \/ Evaluate({"tok-p1"}, {UrlPlain, UrlPort, UrlSub}, SUBSET Sources, Outcomes, BOOLEAN)
    \/ \E key \in CacheKeys : Expire(key)

WaterfallSpec == Init /\ [][WaterfallNext]_vars

\* The history listing: a manager blocks a domain, visits of both profiles are
\* recorded, and the managers page through the records.
HistoryNext ==
    \/ Evaluate({"tok-p1", "tok-p2"}, {UrlPlain, UrlSub}, {{}}, {"clean"}, {TRUE})
    \/ \E v \in RuleValues("DOMAIN") : CreateRule("u1", "p1", "DOMAIN", v, TRUE)
    \/ \E profile_id \in Profiles, current_user \in Users, page \in 1..MaxPage,
          page_size \in PageSizes, blocked_only \in BOOLEAN :
           GetHistory(profile_id, current_user, page, page_size, blocked_only)

HistorySpec == Init /\ [][HistoryNext]_vars

\* Paging: visits of one URL by both profiles are recorded, the manager of p1
\* blocking its domain at some point, and that manager pages through the
\* records of either profile.
PagingNext ==
    \/ Evaluate({"tok-p1", "tok-p2"}, {UrlPlain}, {{}}, {"clean"}, {TRUE})
    \/ \E v \in RuleValues("DOMAIN") : CreateRule("u1", "p1", "DOMAIN", v, TRUE)
    \/ \E profile_id \in Profiles, page \in 1..MaxPage, page_size \in PageSizes,
          blocked_only \in BOOLEAN :
           GetHistory(profile_id, "u1", page, page_size, blocked_only)

PagingSpec == Init /\ [][PagingNext]_vars

\* Domain extraction: check_and_record_url is called with URLs that have a
\* hostname, in either case and with a port, and with one that has none.
DomainNext ==
    Evaluate({"tok-p1"}, {UrlPlain, UrlPort, UrlNoHost}, {{}}, {"clean"}, BOOLEAN)

DomainSpec == Init /\ [][DomainNext]_vars

\* Password recovery: recovery mails are sent to a registered address, and
\* the tokens generated and a forged one are presented to reset_password by two
\* requests at a time, while the clock runs.
RecoveryNext ==
    \/ Tick
    \/ RequestPasswordReset(Registered, "answered", "sent")
    \/ \E s \in ResetSlots, token \in ResetTokens,
          new_password \in {NewPassword, WeakPassword} :
           BeginReset(s, token, new_password)
    \/ \E s \in ResetSlots, raised \in BOOLEAN : FindUser(s, raised)
    \/ \E s \in ResetSlots, raised \in BOOLEAN : UpdateUserPassword(s, raised)
    \/ \E s \in ResetSlots : SendNotification(s)

RecoverySpec == Init /\ [][RecoveryNext]_vars

\* Using a recovery token again: the tokens mailed and a forged one are
\* presented with a strong password by two requests at a time, the user store
\* answering every time, while the clock runs.
SingleUseNext ==
    \/ Tick
    \/ RequestPasswordReset(Registered, "answered", "sent")
    \/ \E s \in ResetSlots, token \in ResetTokens :
           BeginReset(s, token, NewPassword)
    \/ \E s \in ResetSlots : FindUser(s, FALSE)
    \/ \E s \in ResetSlots : UpdateUserPassword(s, FALSE)
    \/ \E s \in ResetSlots : SendNotification(s)

SingleUseSpec == Init /\ [][SingleUseNext]_vars

\* Asking for a recovery mail: for a registered and an unregistered address,
\* with the user lookup and the mail server working or not.
AskNext ==
    \/ Tick
    \/ \E email \in Emails, lookup \in {"answered", "raised"},
          mail \in {"sent", "refused", "raised"} :
           RequestPasswordReset(email, lookup, mail)

AskSpec == Init /\ [][AskNext]_vars

\* Linking: extensions present the link codes of the profiles and an unknown
\* one, while the clock runs.
LinkNext ==
    \/ Tick
    \/ \E link_code \in LinkCodes, extension_instance_id \in Extensions :
           LinkExtension(link_code, extension_instance_id)

LinkSpec == Init /\ [][LinkNext]_vars

\* The IOC feed: check_threatfox is applied to every answer of up to MaxIocs
\* IOCs, with each query status.
FeedInit ==
    /\ CoreInit /\ RecoveryInit /\ LinkingInit
    /\ feed \in FeedAnswers
    /\ feed_verdict = NoVerdict

FeedNext == CheckThreatfox(<<"b", ".", "x">>)

FeedSpec == FeedInit /\ [][FeedNext]_vars

\* Rule matching: a manager adds URL and KEYWORD rules to profile p1 and
\* switches them on and off, while visits of the profile, with and without a
\* port in the URL, are evaluated; nothing fails.
MatchNext ==
    \/ Evaluate({"tok-p1"}, {UrlPlain, UrlPort}, {{}}, {"clean"}, {TRUE})
    \/ \E t \in {"URL", "KEYWORD"}, active \in BOOLEAN :
           \E v \in RuleValues(t) : CreateRule("u1", "p1", t, v, active)
    \/ \E id \in RuleIds, active \in BOOLEAN : UpdateRule("u1", id, active)

MatchSpec == Init /\ [][MatchNext]_vars

\* The audit trail: the manager of profile p1 blocks a domain, then edits or
\* deletes the rule and the profile, while visits of the profile are recorded
\* and the records are listed.
AuditNext ==
    \/ Evaluate({"tok-p1"}, {UrlPlain}, {{}}, {"clean"}, {TRUE})
    \/ \E v \in RuleValues("DOMAIN") : CreateRule("u1", "p1", "DOMAIN", v, TRUE)
    \/ \E id \in RuleIds : DescribeRule("u1", id, <<"editada">>)
    \/ \E id \in RuleIds : DeleteRule("u1", id)
    \/ \E enabled \in BOOLEAN : UpdateProfile("u1", "p1", enabled)
    \/ DeleteProfile("u1", "p1")
    \/ GetHistory("p1", "u1", 1, 2, TRUE)

AuditSpec == Init /\ [][AuditNext]_vars

\* The record store: visits of both profiles are recorded, and the history
\* CRUD removes the records of a profile.
StoreNext ==
    \/ Evaluate({"tok-p1", "tok-p2"}, {UrlPlain}, {{}}, {"clean"}, BOOLEAN)
    \/ \E profile_id \in Profiles : DeleteByProfile(profile_id)

StoreSpec == Init /\ [][StoreNext]_vars

\* Concurrent calls: two visits of the same URL by profile p1 are evaluated
\* at once, the scan index's data about the domain changing between them;
\* MongoDB, Memcached and the resolver may fail.
ConcurrentNext ==
    \/ Evaluate({"tok-p1"}, {UrlPlain}, {{}, {ScanIndex}}, {"flagged", "clean"},
                BOOLEAN)
    \/ \E intel \in {{}, {ScanIndex}} : Start(2, "tok-p1", UrlPlain, intel)

ConcurrentSpec == Init /\ [][ConcurrentNext]_vars

\* Rule management: both users ask the rule services to create, update and
\* delete rules of both profiles, of rules that exist and of rules that do not,
\* and delete their profiles.
RuleNext ==
    \/ \E user \in Users, p \in Profiles, active \in BOOLEAN :
           \E v \in RuleValues("DOMAIN") : CreateRule(user, p, "DOMAIN", v, active)
    \/ \E user \in Users, id \in 1..MaxRules, active \in BOOLEAN :
           UpdateRule(user, id, active)
    \/ \E user \in Users, id \in 1..MaxRules : DeleteRule(user, id)
    \/ \E user \in Users, p \in Profiles : DeleteProfile(user, p)

RuleSpec == Init /\ [][RuleNext]_vars

(***************************************************************************)
(* Properties of check_and_record_url.                                     *)
(***************************************************************************)
\* the call of slot r has delivered its answer or its exception
Done(r) == req[r].pc = "done"

\* the call of slot r was made for an existing profile
ForProfile(r) == req[r].profile # ""

\* section 4.5 of the specification: a rule matches a URL when its value
\* equals the URL's lower-cased hostname (DOMAIN) or the lower-cased URL
\* (URL), or occurs in the lower-cased URL (KEYWORD)
PolicyRuleMatches(rule, url) ==
    LET value == Lower(rule.rule_value)
    IN  \/ rule.rule_type = "DOMAIN" /\ Lower(Hostname(url)) = value
        \/ rule.rule_type = "URL" /\ Lower(url) = value
        \/ rule.rule_type = "KEYWORD" /\ Contains(Lower(url), value)

\* one of the active rules the call loaded matches its URL
PolicyMatch(r) ==
    \E i \in 1..Len(req[r].rules) : PolicyRuleMatches(req[r].rules[i], req[r].url)

\* the call has consulted neither the cache nor a source nor the resolver
NoLookup(r) == req[r].calls = <<>> /\ req[r].cacheRead = "none"

\* C1: a call whose URL matches an active rule of its profile answers
\* blocked by user rule, without any cache, source or resolver lookup.  Stated
\* for the calls whose rule load and history write succeeded.
C1_MatchingRuleBlocks ==
    \A r \in Reqs :
        (/\ Done(r)
         /\ req[r].rulesLoad = "loaded"
         /\ req[r].navWrite = "stored"
         /\ PolicyMatch(r))
        => /\ req[r].result.kind = "ok"
           /\ req[r].result.is_blocked_by_user_rule
           /\ NoLookup(r)

\* C2: a call for a profile whose url_checking_enabled is false answers
\* not blocked and not malicious, without loading rules and without any cache
\* or source lookup.
C2_DisabledProfileSkipsChecks ==
    \A r \in Reqs :
        (ForProfile(r) /\ ~req[r].enabled)
        => /\ req[r].rulesLoad = "none"
           /\ NoLookup(r)
           /\ Done(r) /\ req[r].navWrite # "raised"
                  => /\ req[r].result.kind = "ok"
                     /\ ~req[r].result.is_blocked_by_user_rule
                     /\ ~req[r].result.malicious

(***************************************************************************)
(* Properties of check_url.                                                *)
(***************************************************************************)
\* the step in which the call of slot r leaves program point pc
Leaves(r, pc) == req[r].pc = pc /\ req'[r].pc # pc

\* the call of slot r delivers a verdict it obtained from the waterfall
Classified(r) ==
    /\ req[r].pc # "done" /\ req'[r].pc = "done"
    /\ req'[r].result.kind = "ok"
    /\ req'[r].result.source \notin {"Cache", "User Rules"}

\* the store's entry for the domain of the call's URL
EntryOf(r) == cache[StrOf(get_domain_from_url(req[r].url))]

WaterfallOrder == <<ScanIndex, IOCFeed, "DNS", IPReputation>>

\* C4: the sources are called in the order scan index, IOC feed, IP
\* reputation; a source is called only when every earlier one answered
\* non-malicious, and the first malicious answer ends the call with that
\* source as the verdict's source.
C4_WaterfallOrder ==
    \A r \in Reqs :
        LET calls == req[r].calls
            n == Len(calls)
        IN  /\ n <= Len(WaterfallOrder)
            /\ Len(req[r].verdicts) = n
            /\ \A i \in 1..n : calls[i] = WaterfallOrder[i]
            /\ \A i \in 1..n : i < n => ~req[r].verdicts[i]
            /\ (n > 0 /\ req[r].verdicts[n])
                   => /\ Done(r)
                      /\ req[r].result.kind = "ok"
                      /\ req[r].result.malicious
                      /\ req[r].result.source = calls[n]

\* a domain flagged by the scan index and by the IOC feed: the scan index
\* answered malicious, and nothing else was called
C4_Witness ==
    \E r \in Reqs :
        /\ Done(r)
        /\ {ScanIndex, IOCFeed} \subseteq req[r].intel
        /\ req[r].calls = <<ScanIndex>>
        /\ req[r].result.source = ScanIndex
        /\ req[r].result.malicious

\* C5 as stated: whatever path a call that obtains a verdict from the
\* waterfall takes, it leaves a cache entry for the domain.
C5_EveryPathLeavesEntry ==
    [][\A r \in Reqs :
          Classified(r) => cache'[StrOf(req'[r].domain)] # NoBlob]_vars

\* C5 amended: a call that obtains a verdict from the waterfall calls
\* set_to_cache exactly once, and when Memcached accepts the write the entry
\* holds that verdict; a later call for the domain that finds the entry
\* returns from the cache without calling a source.  When Memcached fails the
\* write, the failure is swallowed and no entry is left.
C5_OneCallSequencePerEntry ==
    [][\A r \in Reqs :
          /\ Classified(r)
                 => /\ req'[r].cacheWrites = 1
                    /\ IF req'[r].cacheStored
                       THEN cache'[StrOf(req'[r].domain)] =
                                JsonDumps([malicious |-> req'[r].result.malicious,
                                           info |-> req'[r].result.info])
                       ELSE cache' = cache
          /\ (/\ Leaves(r, "recorded")
              /\ ~req[r].blocked
              /\ EntryOf(r) # NoBlob
              /\ req'[r].cacheRead # "raised")
                 => /\ req'[r].cacheRead = "hit"
                    /\ req'[r].pc = "done"
                    /\ req'[r].calls = <<>>]_vars

\* the second call for a domain returns the safe verdict the first one cached
C5_Witness ==
    \E r \in Reqs :
        /\ Done(r)
        /\ visits = 2
        /\ req[r].cacheRead = "hit"
        /\ ~req[r].result.malicious
        /\ req[r].calls = <<>>

(***************************************************************************)
(* Properties of the rule loop and of the record.                          *)
(***************************************************************************)
\* the loaded rules that match the call's URL as the loop tests them
Matching(r) ==
    {i \in 1..Len(req[r].rules) : RuleMatches(req[r].rules[i], req[r].url)}

\* the earliest-created of the loaded rules that match
Earliest(r) ==
    req[r].rules[CHOOSE i \in Matching(r) :
                     \A j \in Matching(r) : req[r].rules[i].id <= req[r].rules[j].id]

\* x occurs in the sequence seq
Occurs(x, seq) == \E i \in 1..Len(seq) : seq[i] = x

\* the rules are loaded in creation order, and the earliest-created matching
\* rule is the one in the snapshot; its type and value are in the block detail
EarliestWins(r) ==
    /\ \A i, j \in 1..Len(req[r].rules) :
           i < j => req[r].rules[i].id < req[r].rules[j].id
    /\ req[r].blocked = (Matching(r) # {})
    /\ req[r].blocked
           => /\ req[r].snapshot.present
              /\ req[r].snapshot.id = Earliest(r).id
              /\ req[r].snapshot.rule_type = Earliest(r).rule_type
              /\ req[r].snapshot.rule_value = Earliest(r).rule_value
              /\ req[r].snapshot.description = Earliest(r).description
    /\ (Done(r) /\ req[r].blocked /\ req[r].result.kind = "ok")
           => /\ Occurs(<<Earliest(r).rule_type>>, req[r].result.blocking_rule_details)
              /\ Occurs(Earliest(r).rule_value, req[r].result.blocking_rule_details)

Records(r) == Leaves(r, "create") /\ req'[r].navWrite = "stored"

C9_WriteFailureStillReturns ==
    \A r \in Reqs :
        (Done(r) /\ req[r].navWrite = "raised") => req[r].result.kind = "ok"

(***************************************************************************)
(* Properties of the source clients.                                       *)
(***************************************************************************)
\* C10: an exchange with a source that ends in a network error, an HTTP
\* error status or a malformed payload makes the client return, not raise: a
\* non-malicious verdict with the source's own name and a message, and
\* check_url goes on to its next step.
C10_SourceFailureDegrades ==
    \A r \in Reqs :
        LET x == req[r].last
            n == Len(req[r].calls)
        IN  x.outcome \in ErrorKinds
            => /\ ~x.response.raised
               /\ ~x.response.malicious
               /\ x.response.source = x.source
               /\ x.response.domain = req[r].domain
               /\ x.response.info # <<>>
               /\ req[r].result.kind # "Exception"
               /\ (x.source = ScanIndex /\ n = 1) => req[r].pc = "threatfox"
               /\ (x.source = IOCFeed /\ n = 2) => req[r].pc = "get_ip"
               /\ x.source = IPReputation
                      => /\ Done(r)
                         /\ req[r].result.kind = "ok"
                         /\ ~req[r].result.malicious
                         /\ req[r].result.source = "Multi-API"

\* the IOC feed sent a malformed payload after the scan index timed out, and
\* the call went on to the resolver
C10_Witness ==
    \E r \in Reqs :
        /\ req[r].pc = "get_ip"
        /\ req[r].last.source = IOCFeed
        /\ req[r].last.outcome = "ParseError"
        /\ req[r].calls = <<ScanIndex, IOCFeed>>

(***************************************************************************)
(* Properties of the history listing.                                      *)
(***************************************************************************)
\* C7: a listing never succeeds for a page beyond the last one.
C7_PageBeyondLastIsError ==
    ~(/\ listing.kind = "ok"
      /\ listing.total_pages >= 1
      /\ listing.current_page > listing.total_pages)

(***************************************************************************)
(* Properties of the verdicts check_url caches.                            *)
(***************************************************************************)
\* the entry set_to_cache leaves for a verdict
EntryFor(malicious, info) == JsonDumps([malicious |-> malicious, info |-> info])

\* the call of slot r ends with the safe verdict of check_url ("Multi-API"
\* is the code's tag for no signal)
NoSignal(r) ==
    /\ req'[r].result.kind = "ok"
    /\ ~req'[r].result.malicious
    /\ req'[r].result.source = "Multi-API"

\* C11 as stated: when no source flags the domain, or its IP cannot be
\* resolved, check_url returns the no-signal verdict and leaves a negative
\* cache entry for the domain.
C11_NoSignalLeavesEntry ==
    [][\A r \in Reqs :
          (Classified(r) /\ ~req'[r].result.malicious)
          => /\ NoSignal(r)
             /\ cache'[StrOf(req'[r].domain)] =
                    EntryFor(FALSE, req'[r].result.info)]_vars

\* C11 amended: when no source flags the domain, or its IP cannot be
\* resolved (the IP reputation source is then not called), check_url returns
\* malicious=false with the no-signal tag and calls set_to_cache once with
\* that negative verdict; the entry is there when Memcached accepts the
\* write, otherwise the failure is swallowed and the store is unchanged.  A
\* resolution failure never yields malicious=true and never raises.
C11_NoSignalVerdict ==
    [][\A r \in Reqs :
          /\ (Classified(r) /\ ~req'[r].result.malicious)
                 => /\ NoSignal(r)
                    /\ req'[r].cacheWrites = 1
                    /\ IF req'[r].cacheStored
                       THEN cache' = [cache EXCEPT ![req'[r].domain] =
                                         EntryFor(FALSE, req'[r].result.info)]
                       ELSE cache' = cache
          /\ Leaves(r, "get_ip")
                 => \/ /\ req'[r].pc = "abuseipdb"
                       /\ cache' = cache
                    \/ /\ req'[r].pc = "done"
                       /\ NoSignal(r)
                       /\ req'[r].calls = <<ScanIndex, IOCFeed, "DNS">>
                       /\ req'[r].result.info =
                              <<"No se pudo obtener la IP del dominio.">>]_vars

\* the IP of the domain could not be resolved, and the negative verdict is
\* in the cache
C11_Witness ==
    \E r \in Reqs :
        /\ Done(r)
        /\ req[r].calls = <<ScanIndex, IOCFeed, "DNS">>
        /\ req[r].result.source = "Multi-API"
        /\ req[r].cacheStored
        /\ cache[StrOf(req[r].domain)] = EntryFor(FALSE, req[r].result.info)

\* C12: when check_url returns malicious=true from source S, the entry
\* written in that call is malicious=true with exactly S's explanation, S is
\* the last source consulted, and no call writes the cache more than once.
C12_MaliciousEntryFromSource ==
    [][\A r \in Reqs :
          /\ req'[r].cacheWrites <= 1
          /\ (Classified(r) /\ req'[r].result.malicious)
                 => LET S == req'[r].calls[Len(req'[r].calls)]
                        answer == req'[r].last
                    IN  /\ S \in Sources
                        /\ req'[r].result.source = S
                        /\ answer.source = S
                        /\ answer.response.malicious
                        /\ req'[r].result.info = answer.response.info
                        /\ req'[r].cacheWrites = 1
                        /\ IF req'[r].cacheStored
                           THEN cache' = [cache EXCEPT ![req'[r].domain] =
                                             EntryFor(TRUE, answer.response.info)]
                           ELSE cache' = cache]_vars

\* the IOC feed flagged the domain and its verdict is in the cache
C12_Witness ==
    \E r \in Reqs :
        /\ Done(r)
        /\ req[r].result.malicious
        /\ req[r].result.source = IOCFeed
        /\ req[r].calls = <<ScanIndex, IOCFeed>>
        /\ cache[StrOf(req[r].domain)] = EntryFor(TRUE, req[r].last.response.info)

(***************************************************************************)
(* Properties of the errors check_and_record_url raises.                   *)
(***************************************************************************)
\* C13: the only error a call raises is the token error of an unknown
\* profile token, raised before any record is written or any lookup made;
\* a failure of the cache or of a source still ends in a verdict, and a
\* failing cache read is a miss that runs the waterfall.
C13_OnlyLookupErrorsPropagate ==
    \A r \in Reqs :
        Done(r)
        => /\ req[r].result.kind # "ok"
                  => /\ req[r].result.kind = "ValueError"
                     /\ ~ForProfile(r)
                     /\ req[r].navWrite = "none"
                     /\ NoLookup(r)
           /\ ~ForProfile(r) => req[r].result.kind = "ValueError"
           /\ req[r].cacheRead = "raised"
                  => /\ req[r].calls # <<>>
                     /\ req[r].result.kind = "ok"

(***************************************************************************)
(* Properties of the rule matching.                                        *)
(***************************************************************************)
\* the call of slot r has loaded the active rules of its profile
Loaded(r) == req[r].rulesLoad = "loaded"

\* C14: a DOMAIN rule matches a URL exactly when the URL's lower-cased
\* hostname, the domain the answer reports, equals the rule value (compared
\* without regard to the case of the value), whatever port or user-info the
\* URL carries; a subdomain of the value does not match.
C14_DomainRuleMatchesHostname ==
    \A r \in Reqs :
        Loaded(r) =>
            \A i \in 1..Len(req[r].rules) :
                req[r].rules[i].rule_type = "DOMAIN"
                => (RuleMatches(req[r].rules[i], req[r].url)
                    <=> get_domain_from_url(req[r].url)
                            = Lower(req[r].rules[i].rule_value))

\* the rule is a URL or a KEYWORD rule
TextRule(rule) == rule.rule_type \in {"URL", "KEYWORD"}

\* a KEYWORD rule's lower-cased value occurs in the lower-cased URL; a URL
\* rule's value, as entered, equals the lower-cased URL
TextRuleMatchesValue(rule, url) ==
    \/ rule.rule_type = "KEYWORD" /\ Contains(Lower(url), Lower(rule.rule_value))
    \/ rule.rule_type = "URL" /\ Lower(url) = rule.rule_value

\* the same with the URL rule's value lower-cased as well
TextRuleMatchesLowered(rule, url) ==
    \/ rule.rule_type = "KEYWORD" /\ Contains(Lower(url), Lower(rule.rule_value))
    \/ rule.rule_type = "URL" /\ Lower(url) = Lower(rule.rule_value)

\* C15 as stated: a call is blocked by a KEYWORD rule only if the lower-cased
\* rule value occurs in the lower-cased URL, and by a URL rule only if the
\* lower-cased URL equals the rule value; and a loaded rule for which this
\* holds blocks the call.
C15_TextRuleMatchesValue ==
    \A r \in Reqs :
        Loaded(r) =>
            /\ (\E i \in 1..Len(req[r].rules) :
                    /\ TextRule(req[r].rules[i])
                    /\ TextRuleMatchesValue(req[r].rules[i], req[r].url))
               => req[r].blocked
            /\ (req[r].blocked /\ TextRule(req[r].snapshot))
               => TextRuleMatchesValue(req[r].snapshot, req[r].url)

\* C15, amended: a KEYWORD rule matches a URL exactly when its lower-cased
\* value occurs in the lower-cased URL, and a URL rule exactly when the
\* lower-cased URL equals the lower-cased rule value: a loaded rule that
\* matches so blocks the call, and a call blocked by such a rule matches so.
C15_TextRuleMatchesLowered ==
    \A r \in Reqs :
        Loaded(r) =>
            /\ (\E i \in 1..Len(req[r].rules) :
                    /\ TextRule(req[r].rules[i])
                    /\ TextRuleMatchesLowered(req[r].rules[i], req[r].url))
               => req[r].blocked
            /\ (req[r].blocked /\ TextRule(req[r].snapshot))
               => TextRuleMatchesLowered(req[r].snapshot, req[r].url)

\* a finished call blocked by a URL rule whose value has an upper-case letter
C15_Witness ==
    \E r \in Reqs :
        /\ Done(r)
        /\ req[r].result.kind = "ok"
        /\ req[r].result.is_blocked_by_user_rule
        /\ req[r].snapshot.rule_type = "URL"
        /\ req[r].snapshot.rule_value # Lower(req[r].snapshot.rule_value)

\* rule i of the store belongs to the profile of call r, is active and
\* matches the call's URL
LiveMatch(r, i) ==
    /\ rules[i].profile = req[r].profile
    /\ rules[i].active
    /\ RuleMatches(rules[i], req[r].url)

\* C16: a rule with active = false never causes a block.  An update of a
\* rule's active flag leaves every rule in the store, in place and otherwise
\* unchanged; and the rule step of a call ends blocked exactly when a rule of
\* its profile that is active in the store at that moment matches, the
\* snapshot naming an active rule: the inactive ones count as absent.
C16_InactiveRuleNeverBlocks ==
    [][/\ (rules' # rules /\ ruleCount' = ruleCount)
          => /\ Len(rules') = Len(rules)
             /\ \A i \in 1..Len(rules) :
                    rules'[i] = [rules[i] EXCEPT !.active = rules'[i].active]
       /\ \A r \in Reqs :
              (req[r].pc = "find_rules" /\ req'[r].pc = "create")
              => /\ req'[r].blocked <=> \E i \in 1..Len(rules) : LiveMatch(r, i)
                 /\ req'[r].blocked
                    => \E i \in 1..Len(rules) :
                           /\ LiveMatch(r, i)
                           /\ rules[i].id = req'[r].snapshot.id]_vars

\* a call has loaded the rules and is not blocked while the store holds a
\* deactivated rule of its profile that matches its URL
C16_Witness ==
    \E r \in Reqs :
        /\ Loaded(r)
        /\ ~req[r].blocked
        /\ req[r].rules = ActiveRulesOf(req[r].profile)
        /\ \E i \in 1..Len(rules) :
               /\ rules[i].profile = req[r].profile
               /\ ~rules[i].active
               /\ RuleMatches(rules[i], req[r].url)

(***************************************************************************)
(* Properties of the records.                                              *)
(***************************************************************************)
\* the display data of a stored record: what its three snapshots hold
FrozenOf(record) ==
    [profile_name |-> record.profile_snapshot.name,
     user_email |-> record.user_snapshot.email,
     user_username |-> record.user_snapshot.username,
     rule_type |-> record.blocking_rule_snapshot.rule_type,
     rule_value |-> record.blocking_rule_snapshot.rule_value,
     rule_description |-> record.blocking_rule_snapshot.description]

\* the display data an item of the history listing shows
ShownOf(item) ==
    [profile_name |-> item.profile_name,
     user_email |-> item.user_email,
     user_username |-> item.user_username,
     rule_type |-> item.blocking_rule_type,
     rule_value |-> item.blocking_rule_value,
     rule_description |-> item.blocking_rule_description]

\* the display data of the profile, its owner and the matched rule as call r
\* read them
ReadBy(r) ==
    [profile_name |-> req[r].psnap.name,
     user_email |-> req[r].usnap.email,
     user_username |-> req[r].usnap.username,
     rule_type |-> req[r].snapshot.rule_type,
     rule_value |-> req[r].snapshot.rule_value,
     rule_description |-> req[r].snapshot.description]

\* the rule that blocked call r, as the call loaded it
BlockerOf(r) ==
    CHOOSE rule \in {req[r].rules[k] : k \in 1..Len(req[r].rules)} :
        rule.id = req[r].snapshot.id

C18_RecordsAppendOnly ==
    [][/\ Len(history') >= Len(history)
       /\ \A i \in 1..Len(history) : history'[i] = history[i]]_vars

(***************************************************************************)
(* Properties of concurrent calls.                                         *)
(***************************************************************************)
\* the program points of check_url, in the order a call passes them
ClassifyOrder == <<"recorded", "urlscanio", "threatfox", "get_ip", "abuseipdb", "done">>

\* the position of program point pc in that order, 0 outside check_url
Position(pc) ==
    IF \E k \in 1..Len(ClassifyOrder) : ClassifyOrder[k] = pc
    THEN CHOOSE k \in 1..Len(ClassifyOrder) : ClassifyOrder[k] = pc
    ELSE 0

\* the call of slot r is inside check_url
Classifying(r) == Position(req[r].pc) \in 1..(Len(ClassifyOrder) - 1)

\* the call of slot r takes a step
Steps(r) == req'[r] # req[r]

\* C19: under any interleaving of concurrent calls for the same uncached
\* domain, every call that classifies completes with a verdict: each of its
\* steps takes it further down check_url, which it leaves with an answer; a
\* call's set_to_cache leaves exactly that call's verdict in the entry, and
\* nothing else changes the cache, so that the entry is the verdict of the call
\* that wrote last; and a step of one call changes nothing of the other call,
\* and nothing outside the call but the cache entry of its domain and the
\* record it appends.
C19_LastWriteWins ==
    [][\A r \in Reqs :
          /\ (Classifying(r) /\ Steps(r))
             => /\ Position(req'[r].pc) > Position(req[r].pc)
                /\ req'[r].pc = "done" => req'[r].result.kind = "ok"
          /\ (Classified(r) /\ req'[r].cacheStored)
             => cache' = [cache EXCEPT ![req'[r].domain] =
                             EntryFor(req'[r].result.malicious,
                                      req'[r].result.info)]
          /\ (Steps(r) /\ req'[r].pc # "get_by_token")
             => /\ \A o \in Reqs \ {r} : req'[o] = req[o]
                /\ UNCHANGED <<profiles, rules, ruleCount, visits, listing, reply>>
                /\ \/ history' = history
                   \/ /\ Records(r)
                      /\ Len(history') = Len(history) + 1
                      /\ SubSeq(history', 1, Len(history)) = history
                      /\ history'[Len(history')].id = req[r].n
                /\ \/ cache' = cache
                   \/ Classified(r) /\ req'[r].cacheStored]_vars

\* two calls found the domain uncached, obtained different verdicts and both
\* wrote the cache; the entry is the verdict of one of them
C19_Witness ==
    /\ \A r \in Reqs :
           /\ Done(r)
           /\ req[r].cacheRead = "miss"
           /\ req[r].cacheStored
    /\ req[1].url = req[2].url
    /\ req[1].result.malicious # req[2].result.malicious
    /\ \E r \in Reqs : EntryOf(r) = EntryFor(req[r].result.malicious, req[r].result.info)

(***************************************************************************)
(* Properties of the rule services.                                        *)
(***************************************************************************)
\* the rules that differ between the store before and after the step
Touched ==
    LET before == {rules[i] : i \in 1..Len(rules)}
        after == {rules'[i] : i \in 1..Len(rules')}
    IN  (before \ after) \cup (after \ before)

\* C20: the rules of a profile are created, updated and deleted only by the
\* manager who owns the profile.  A request that changes the rule store was
\* answered with the rule, was made by the manager of the profile addressed,
\* and changes rules of that profile only; a request of any other user, or
\* about a profile or a rule that does not exist, is rejected with 403 or 404
\* and leaves the rule store unchanged.
C20_OnlyOwnerManagesRules ==
    [][(rules' # rules \/ reply' # reply)
       => /\ reply'.outcome \in {"returned", "403", "404"}
          /\ IF reply'.outcome = "returned"
             THEN /\ Manages(reply'.user, reply'.profile)
                  /\ \A rule \in Touched : rule.profile = reply'.profile
             ELSE /\ rules' = rules
                  /\ ruleCount' = ruleCount
          /\ ~Manages(reply'.user, reply'.profile)
             => reply'.outcome \in {"403", "404"}
          /\ reply'.outcome = "404" => ~Exists(reply'.profile)]_vars

\* the request of a user who does not manage the profile of an existing rule
\* was rejected with 403
C20_Witness ==
    /\ reply.outcome = "403"
    /\ Exists(reply.profile)
    /\ profiles[reply.profile].manager_user # reply.user
    /\ \E i \in 1..Len(rules) : rules[i].profile = reply.profile

(***************************************************************************)
(* Properties of the history retrieval.                                    *)
(***************************************************************************)
\* the positions in the store of the records a listing request is about
Asked(profile_id, blocked_only) ==
    {i \in 1..Len(history) :
        /\ history[i].profile_snapshot.id = profile_id
        /\ blocked_only => history[i].blocked}

\* the record at position k (from 1) of the newest-first order of the records
\* at positions I: the one with k - 1 later records
NewestFirst(I, k) ==
    history[CHOOSE i \in I : Cardinality({j \in I : j > i}) = k - 1]

\* the least number of pages of page_size that hold total records
PagesFor(total, page_size) ==
    CHOOSE n \in 0..total : n * page_size >= total
                            /\ \A m \in 0..total : m * page_size >= total => n <= m

\* C21: a history listing answers only the manager who owns the profile; it
\* reports as total_items the number of the profile's records (of its blocked
\* records with blocked_only), as total_pages the least number of pages that
\* hold them, and page p holds, newest first, the records at positions
\* (p - 1) * page_size + 1 to p * page_size of that order.
C21_PagedNewestFirst ==
    [][listing' # listing
       => LET a == listing'
              I == Asked(a.asked_profile, a.asked_blocked_only)
              skip == (a.current_page - 1) * a.page_size
          IN  IF profiles[a.asked_profile].manager_user # a.asked_by
              THEN a.kind = "ValueError"
              ELSE /\ a.kind = "ok"
                   /\ a.total_items = Cardinality(I)
                   /\ a.total_pages = PagesFor(Cardinality(I), a.page_size)
                   /\ \A k \in 1..a.page_size :
                          IF skip + k <= Cardinality(I)
                          THEN /\ k <= Len(a.items)
                               /\ a.items[k].id = NewestFirst(I, skip + k).id
                               /\ a.items[k].blocked = NewestFirst(I, skip + k).blocked
                               /\ a.items[k].profile_id = a.asked_profile
                          ELSE k > Len(a.items)]_vars

\* a listing of all the records of a profile answered with its second page,
\* which holds the older of two records
C21_Witness ==
    /\ listing.kind = "ok"
    /\ ~listing.asked_blocked_only
    /\ listing.current_page = 2
    /\ listing.page_size = 1
    /\ listing.total_items = 2
    /\ Len(listing.items) = 1
    /\ \E i \in 1..Len(history) : history[i].id > listing.items[1].id

(***************************************************************************)
(* Properties of the domain extraction.                                    *)
(***************************************************************************)
\* C22: get_domain_from_url returns the lower-cased hostname of the URL, and
\* for a URL without hostname the call fails with an invalid-URL error
\* without reading the cache, calling a source or the resolver, or writing the
\* cache.
C22_NoHostnameIsInvalidURL ==
    \A r \in Reqs :
        req[r].pc # "idle"
        => IF Hostname(req[r].url) = NoneVal
           THEN /\ NoLookup(r)
                /\ req[r].cacheWrites = 0
                /\ Done(r) /\ req[r].navWrite = "stored"
                       => req[r].result.kind \notin {"ok", "none"}
           ELSE /\ get_domain_from_url(req[r].url) = Lower(Hostname(req[r].url))
                /\ Done(r) /\ req[r].result.kind = "ok"
                       => req[r].result.domain = Lower(Hostname(req[r].url))

(***************************************************************************)
(* Properties of the password recovery.                                    *)
(***************************************************************************)
\* a reset_password call has returned success with token t
Succeeded(t) ==
    \E s \in ResetSlots :
        resets[s].pc = "done" /\ resets[s].success /\ resets[s].token = t

\* slot s starts a reset_password call in this step
Begins(s) == resets[s].pc \in {"idle", "done"} /\ resets'[s] # resets[s]

\* C23: once reset_password has succeeded with a token, as long as the token
\* has not expired verify_reset_token answers None for it and every
\* reset_password call started with it fails, whatever other tokens were marked
\* as used in between.
C23_TokenSingleUse ==
    [][\A t \in Generated :
          (Succeeded(t) /\ now' < t.exp)
              => /\ verify_reset_token(t, used_tokens', now') = NoneVal
                 /\ \A s \in ResetSlots :
                        (Begins(s) /\ resets'[s].token = t)
                            => resets'[s].pc = "done" /\ ~resets'[s].success]_vars

\* a second call with a token that succeeded was refused before the token
\* expired, after another token was marked as used
C23_Witness ==
    \E a, b \in ResetSlots :
        /\ a # b
        /\ Succeeded(resets[a].token) /\ resets[a].success
        /\ resets[b].pc = "done" /\ ~resets[b].success
        /\ resets[b].token = resets[a].token
        /\ resets[b].message = <<"Token invalido o expirado">>
        /\ now < resets[a].token.exp
        /\ \E t \in DOMAIN used_tokens : t # resets[a].token

\* C24: the answer to a recovery request is the same success and the same
\* message for a registered address, an unregistered one, and when the user
\* lookup or the mail fails.
C24_SameAnswer ==
    reset_answer # NoAnswer
        => /\ reset_answer.success
           /\ reset_answer.message = <<"Si tu email esta registrado">>

\* an unregistered address was answered after a token was generated for the
\* registered one
C24_Witness ==
    /\ reset_answer.email = Unregistered
    /\ reset_answer.lookup = "answered"
    /\ Len(reset_tokens) = 1

Redeemed(link_code) ==
    /\ \E p \in Profiles : link_code = LinkCodeOf(p)
    /\ HeldBy(link_code) = {}

\* this step is a LinkExtensionRequest that ends with one of the statuses
Replied(statuses) ==
    link_reply' # link_reply /\ link_reply'.status_code \in statuses

\* C25: no extension is attached to two profiles; a call with a redeemed code
\* is refused; a successful call moves the profile of the code from
\* waiting_for_link to linked and clears its code; a call refused with 400 or
\* 409 changes no profile.
C25_LinkOnce ==
    [][/\ \A p, q \in Profiles :
              (p # q /\ links'[p].extension_instance_id # NoneVal)
                  => links'[p].extension_instance_id # links'[q].extension_instance_id
       /\ (link_reply' # link_reply /\ Redeemed(link_reply'.link_code))
              => link_reply'.status_code = 400
       /\ Replied({200})
              => LET p == link_reply'.profile
                 IN  /\ links[p].link_status = "waiting_for_link"
                     /\ links[p].link_code = link_reply'.link_code
                     /\ links'[p].link_status = "linked"
                     /\ links'[p].link_code = NoneVal
                     /\ links'[p].extension_instance_id
                            = link_reply'.extension_instance_id
                     /\ \A q \in Profiles \ {p} : links'[q] = links[q]
       /\ Replied({400, 409}) => links' = links]_vars

\* both profiles are linked, and a redeemed code was refused
C25_Witness ==
    /\ \A p \in Profiles : links[p].link_status = "linked"
    /\ link_reply.status_code = 400
    /\ Redeemed(link_reply.link_code)

(***************************************************************************)
(* Properties of the IOC feed source.                                      *)
(***************************************************************************)
\* the IOCs of the answer with confidence_level >= 50
Qualifying == {i \in 1..Len(feed.data) : feed.data[i].confidence_level >= 50}

\* C26: check_threatfox reports malicious iff the feed answered ok with at
\* least one IOC of confidence_level >= 50, and then its explanation names an
\* IOC of the answer whose confidence_level no other IOC exceeds; every other
\* answer gives malicious=false.
C26_FeedVerdict ==
    feed_verdict # NoVerdict
        => /\ feed_verdict.malicious
                  <=> (feed.query_status = "ok" /\ Qualifying # {})
           /\ feed_verdict.malicious
                  => \E i \in Qualifying :
                         /\ feed_verdict.info = Finding(feed.data[i])
                         /\ \A j \in 1..Len(feed.data) :
                                feed.data[j].confidence_level
                                    <= feed.data[i].confidence_level

\* two IOCs qualify and the one named is not the first of them
C26_Witness ==
    /\ feed_verdict.malicious
    /\ Len(feed.data) >= 2
    /\ feed.data[1].confidence_level = 50
    /\ feed.data[2].confidence_level = 75
    /\ feed_verdict.info = Finding(feed.data[2])

(***************************************************************************)
(* Properties of the record's block fields.                                *)
(***************************************************************************)
\* the record the step appends
Written == history'[Len(history')]

\* the snapshot has the id, type and value of a rule among rs that matches
\* the visited URL
SnapshotOf(snapshot, rs, visited_url) ==
    \E i \in 1..Len(rs) :
        /\ snapshot.id = rs[i].id
        /\ snapshot.rule_type = rs[i].rule_type
        /\ snapshot.rule_value = rs[i].rule_value
        /\ RuleMatches(rs[i], visited_url)

\* C27 as stated: a record written by the extension path is blocked iff its
\* rule snapshot is non-null, and then the snapshot is that of a rule of the
\* same profile that matches the visited URL and is active when the record is
\* created.
C27_SnapshotOfActiveRule ==
    [][\A r \in Reqs :
          Records(r)
              => /\ Written.blocked <=> Written.blocking_rule_snapshot.present
                 /\ Written.blocking_rule_snapshot.present
                        => SnapshotOf(Written.blocking_rule_snapshot,
                                      ActiveRulesOf(Written.profile_snapshot.id),
                                      Written.visited_url)]_vars

\* C27 amended: a record written by the extension path is blocked iff its
\* rule snapshot is non-null, and then the snapshot is that of a rule of the
\* same profile that matched the visited URL and was active when the call
\* loaded the profile's rules.
C27_SnapshotOfLoadedRule ==
    [][\A r \in Reqs :
          Records(r)
              => /\ Written.blocked <=> Written.blocking_rule_snapshot.present
                 /\ Written.blocking_rule_snapshot.present
                        => /\ req[r].rulesLoad = "loaded"
                           /\ req[r].profile = Written.profile_snapshot.id
                           /\ \A i \in 1..Len(req[r].rules) :
                                  /\ req[r].rules[i].active
                                  /\ req[r].rules[i].profile = req[r].profile
                           /\ SnapshotOf(Written.blocking_rule_snapshot,
                                         req[r].rules, Written.visited_url)]_vars

\* a blocked record carries the snapshot of a rule that was deactivated
\* between the load of the rules and the write
C27_Witness ==
    \E r \in Reqs :
        /\ req[r].navWrite = "stored"
        /\ req[r].navId = Len(history)
        /\ history[req[r].navId].blocked
        /\ history[req[r].navId].blocking_rule_snapshot.present
        /\ \E i \in 1..Len(rules) :
               /\ rules[i].id = history[req[r].navId].blocking_rule_snapshot.id
               /\ ~rules[i].active

(***************************************************************************)
(* Properties of the negative cache entries.                               *)
(***************************************************************************)
\* the call of slot r ends with a negative verdict although every source
\* would flag the domain: each source it consulted failed, or the resolver did
NegativeByFailure(r) ==
    Classified(r) /\ ~req'[r].result.malicious /\ req[r].intel = Sources

\* the call of slot r looks the domain up while the store holds a negative
\* entry for it
FindsNegative(r) ==
    /\ Leaves(r, "recorded")
    /\ ~req[r].blocked
    /\ EntryOf(r) # NoBlob
    /\ ~JsonLoads(EntryOf(r)).malicious

FromCacheNegative(r) ==
    /\ req'[r].pc = "done"
    /\ req'[r].cacheRead = "hit"
    /\ req'[r].calls = <<>>
    /\ req'[r].result.source = "Cache"
    /\ ~req'[r].result.malicious

\* C28 as stated: a negative verdict that is due to failing sources or a
\* failing resolver is cached as malicious=false, and every later call for the
\* domain that finds the entry returns malicious=false from the cache without
\* consulting a source, even when the sources would flag the domain.
C28_FailureVerdictCached ==
    [][\A r \in Reqs :
          /\ NegativeByFailure(r)
                 => cache'[req'[r].domain] = EntryFor(FALSE, req'[r].result.info)
          /\ FindsNegative(r) => FromCacheNegative(r)]_vars

\* C28 amended: the same, provided Memcached accepts the write and answers
\* the read; a write it fails is swallowed and leaves the store unchanged, and
\* a read it fails is a miss, after which the sources are consulted.
C28_FailureVerdictCachedIfStored ==
    [][\A r \in Reqs :
          /\ NegativeByFailure(r)
                 => /\ req'[r].cacheWrites = 1
                    /\ IF req'[r].cacheStored
                       THEN cache'[req'[r].domain] =
                                EntryFor(FALSE, req'[r].result.info)
                       ELSE cache' = cache
          /\ FindsNegative(r)
                 => IF req'[r].cacheRead = "raised"
                    THEN req'[r].pc = "urlscanio" /\ req'[r].calls = <<>>
                    ELSE FromCacheNegative(r)]_vars

\* the second call, for a domain every source would flag, returned the
\* negative verdict cached when the resolver failed
C28_Witness ==
    \E r \in Reqs :
        /\ Done(r)
        /\ visits = 2
        /\ req[r].intel = Sources
        /\ req[r].cacheRead = "hit"
        /\ req[r].calls = <<>>
        /\ ~req[r].result.malicious
        /\ req[r].result.info = <<"No se pudo obtener la IP del dominio.">>

(***************************************************************************)
(* Properties of a failing rule evaluation.                                *)
(***************************************************************************)
\* C30: when loading or matching the rules raises, the error is swallowed:
\* the record is still written, with blocked=false and no rule snapshot, and
\* the call goes on to the reputation check and answers with its verdict,
\* neither a block nor an error.
C30_RuleFailureFailsOpen ==
    \A r \in Reqs :
        (req[r].rulesLoad = "raised" /\ req[r].pc \notin {"find_rules", "create"})
            => /\ req[r].navWrite = "stored"
               /\ ~history[req[r].navId].blocked
               /\ ~history[req[r].navId].blocking_rule_snapshot.present
               /\ Done(r)
                      => /\ req[r].result.kind = "ok"
                         /\ ~req[r].result.is_blocked_by_user_rule
                         /\ req[r].cacheRead # "none"

=============================================================================
